---- MODULE Spec2Model ----
(***************************************************************************)
(* State-machine model of the FSDP ledger (fsdp/blockchain/chain.py), the  *)
(* ledger poller (fsdp/protocol/fsdp_protocol.py) and the session manager  *)
(* (fsdp/protocol/session_manager.py), the file transfer engine            *)
(* (fsdp/protocol/file_transfer.py) and the isolated terminals of the      *)
(* payload (fsdp/test_payloads/fsdp_payload_enhanced.py).                  *)
(*                                                                         *)
(* SHA-256 is modelled as a collision-free function: the hash of a block   *)
(* is the tuple of the fields that calculate_hash serialises.  Clock       *)
(* readings (time.time()) are the value of a logical clock.                *)
(***************************************************************************)
EXTENDS Integers, Sequences, FiniteSets, TLC

\* ------------------------------------------------------------------ bounds
MaxTx == 2
MaxChain == 3
MaxTime == 1
MaxReconnect == 2
MaxAgeHours == 1
MaxDispatch == 2
\* file_transfer.py has CHUNK_SIZE = 4 MiB; the model scales it down
CHUNK_SIZE == 2
MaxFileSize == 3
MaxMessages == 2
MaxCommands == 3
MaxHandlers == 2
MaxProgressCalls == 3

\* --------------------------------------------------------------- constants
Nodes == {"admin-node", "target-node"}
Broadcast == "*"
Dests == Nodes \cup {Broadcast}
MessageType == {"session_open", "response"}
TxTypes == MessageType \cup {"test"}
NoBlockIndex == 0 - 1
GenesisValidator == "genesis"
ZeroHash == <<>>
SecondsPerHour == 3600
Threads == {"main"}
SessionIds == <<"session-001", "session-002">>
TerminalIds == <<"terminal-001", "terminal-002">>
AgeChoices == 0..MaxAgeHours

VARIABLES
  chain,                  \* node -> sequence of blocks
  pending_transactions,   \* node -> sequence of transactions
  validators,             \* node -> authorised validator ids (a duplicate-free list)
  is_validator,           \* node -> BOOLEAN (constructor flag)
  clock,                  \* logical time.time()
  next_id,                \* next message id to hand out
  ret,                    \* the last ledger call and what it returned
  last_processed_block,   \* node -> block index (FSDPProtocol)
  message_handlers,       \* node -> type -> sequence of handlers
  dispatch_count,         \* node -> message id -> times handed to handlers
  dispatch_order,         \* node -> message ids in order of first dispatch
  invoked,                \* node -> handler calls of the latest poll, in order
  accepted,               \* node -> transactions add_transaction accepted
  sessions,               \* session id -> session state (SessionManager)
  stored,                 \* session id -> persisted <id>.session record
  lock,                   \* "free" or the thread holding SessionManager.lock
  pc,                     \* thread -> stack of calls in progress, top first
  files,                  \* path -> bytes of the file at that path
  transfers,              \* transfer id -> FileTransferInfo
  protocol_sessions,      \* session id -> FSDPSession (FSDPProtocol.sessions)
  terminals,              \* terminal id -> IsolatedTerminal (TerminalManager)
  progress_callbacks,     \* the transfer ids with a progress callback
  progress_calls,         \* the calls of progress callbacks, in order
  ledger_lock,            \* node -> "free" or the thread holding FSDPBlockchain.lock
  thread_pc,              \* thread -> the call it is in and its position
  access                  \* what the last step of a thread read or wrote

ledgerVars == <<chain, pending_transactions, validators, is_validator,
                clock, next_id, ret>>
pollVars == <<last_processed_block, message_handlers, dispatch_count,
              dispatch_order, invoked, accepted>>
sessVars == <<sessions, stored, lock, pc>>
engineVars == <<files, transfers, protocol_sessions, terminals,
                progress_callbacks, progress_calls>>
threadVars == <<ledger_lock, thread_pc, access>>
vars == <<ledgerVars, pollVars, sessVars, engineVars, threadVars>>

\* ----------------------------------------------------------------- helpers
Range(s) == {s[i] : i \in 1..Len(s)}
Max(a, b) == IF a >= b THEN a ELSE b
Last(s) == s[Len(s)]

\* ------------------------------------------------------------------- Block
CalculateHash(b) ==
  <<b.index, b.timestamp, b.data, b.previous_hash, b.validator>>

Block(index, timestamp, data, previous_hash, validator) ==
  LET b == [index |-> index, timestamp |-> timestamp, data |-> data,
            previous_hash |-> previous_hash, validator |-> validator,
            hash |-> ZeroHash]
  IN [b EXCEPT !.hash = CalculateHash(b)]

GenesisBlock(t) ==
  Block(0, t, [kind |-> "message", transactions |-> <<>>], ZeroHash,
        GenesisValidator)

\* ------------------------------------------------------------ pure queries
MutAuthorizedEither(l) == is_validator[l] \/ l \in validators[l]

Authorized(l) == is_validator[l] /\ l \in validators[l]

MutBlockValidNoLinkCheck(c, vals, i) ==
  /\ c[i].hash = CalculateHash(c[i])
  /\ (c[i].validator \in vals \/ c[i].validator = GenesisValidator)

MutBlockValidNoHashCheck(c, vals, i) ==
  /\ c[i].previous_hash = c[i - 1].hash
  /\ (c[i].validator \in vals \/ c[i].validator = GenesisValidator)

BlockValid(c, vals, i) ==
  /\ c[i].hash = CalculateHash(c[i])
  /\ c[i].previous_hash = c[i - 1].hash
  /\ (c[i].validator \in vals \/ c[i].validator = GenesisValidator)

IsChainValid(c, vals) == \A i \in 2..Len(c) : BlockValid(c, vals, i)

Matches(tx, node) == tx.to = node

HasTransactions(b) == b.data.kind = "transactions"

BlockTransactionsFor(b, node) ==
  IF HasTransactions(b)
  THEN LET hit == SelectSeq(b.data.transactions, LAMBDA tx : Matches(tx, node))
       IN [j \in 1..Len(hit) |-> [hit[j] EXCEPT !.block_index = b.index]]
  ELSE <<>>

RECURSIVE MutTransactionsFromNewestFirst(_, _, _)
MutTransactionsFromNewestFirst(c, node, pos) ==
  IF pos > Len(c) THEN <<>>
  ELSE MutTransactionsFromNewestFirst(c, node, pos + 1)
         \o BlockTransactionsFor(c[pos], node)

RECURSIVE TransactionsFrom(_, _, _)
TransactionsFrom(c, node, pos) ==
  IF pos > Len(c) THEN <<>>
  ELSE BlockTransactionsFor(c[pos], node) \o TransactionsFrom(c, node, pos + 1)

\* what get_transactions_for_node returns (chain[since_block:])
GetTransactionsForNode(c, node, since_block) ==
  TransactionsFrom(c, node, since_block + 1)

\* the chain after get_transactions_for_node: tx['block_index'] is written
\* into the dictionaries the blocks hold
AnnotateBlock(b, node) ==
  IF HasTransactions(b)
  THEN [b EXCEPT !.data.transactions =
          [j \in 1..Len(b.data.transactions) |->
             IF Matches(b.data.transactions[j], node)
             THEN [b.data.transactions[j] EXCEPT !.block_index = b.index]
             ELSE b.data.transactions[j]]]
  ELSE b

ChainAfterGet(c, node, since_block) ==
  [i \in 1..Len(c) |-> IF i > since_block THEN AnnotateBlock(c[i], node) ELSE c[i]]

ToDict(b) ==
  [index |-> b.index, timestamp |-> b.timestamp, data |-> b.data,
   previous_hash |-> b.previous_hash, validator |-> b.validator,
   hash |-> b.hash]
GetChainData(c) == [i \in 1..Len(c) |-> ToDict(c[i])]

RebuildChain(chain_data) ==
  [i \in 1..Len(chain_data) |->
     Block(chain_data[i].index, chain_data[i].timestamp, chain_data[i].data,
           chain_data[i].previous_hash, chain_data[i].validator)]

MutSyncAcceptsEqual(new_chain, old_chain) == Len(new_chain) >= Len(old_chain)

SyncAccepts(new_chain, old_chain) == Len(new_chain) > Len(old_chain)

\* ------------------------------------------------------------------- Init
NoRet == [op |-> "none", node |-> "none", val |-> "none"]

InitSessions ==
  /\ sessions = <<>>
  /\ stored = <<>>
  /\ lock = "free"
  /\ pc = [t \in Threads |-> <<>>]

InitEngine ==
  /\ files = <<>>
  /\ transfers = <<>>
  /\ protocol_sessions = <<>>
  /\ terminals = <<>>
  /\ progress_callbacks = {}
  /\ progress_calls = <<>>

WorkerThreads == {"t1", "t2"}
IdleThread == [op |-> "idle", at |-> "idle", node |-> "none", local |-> <<>>]
NoAccess ==
  [thread |-> "none", node |-> "none", op |-> "none", fields |-> {},
   locked |-> FALSE]

InitThreads ==
  /\ ledger_lock = [l \in Nodes |-> "free"]
  /\ thread_pc = [t \in WorkerThreads |-> IdleThread]
  /\ access = NoAccess

InitPoll ==
  /\ last_processed_block = [l \in Nodes |-> 0]
  /\ message_handlers =
       [l \in Nodes |-> [ty \in MessageType |->
          IF ty = "session_open" THEN <<"on_session_open">> ELSE <<>>]]
  /\ dispatch_count = [l \in Nodes |-> [i \in 1..MaxTx |-> 0]]
  /\ dispatch_order = [l \in Nodes |-> <<>>]
  /\ invoked = [l \in Nodes |-> <<>>]
  /\ accepted = [l \in Nodes |-> <<>>]

Init ==
  /\ chain = [l \in Nodes |-> <<GenesisBlock(0)>>]
  /\ pending_transactions = [l \in Nodes |-> <<>>]
  /\ validators = [l \in Nodes |-> {}]
  /\ is_validator = [l \in Nodes |-> l = "admin-node"]
  /\ clock = 0
  /\ next_id = 1
  /\ ret = NoRet
  /\ InitPoll
  /\ InitSessions
  /\ InitEngine
  /\ InitThreads

\* ----------------------------------------------------------- ledger calls
AddValidator(l, validator_id) ==
  /\ validators' = [validators EXCEPT ![l] =
        IF validator_id \notin @ THEN @ \cup {validator_id} ELSE @]
  /\ ret' = NoRet
  /\ UNCHANGED <<chain, pending_transactions, is_validator, clock, next_id,
                 pollVars, sessVars, engineVars,
                 threadVars>>

RemoveValidator(l, validator_id) ==
  /\ validators' = [validators EXCEPT ![l] =
        IF validator_id \in @ THEN @ \ {validator_id} ELSE @]
  /\ ret' = NoRet
  /\ UNCHANGED <<chain, pending_transactions, is_validator, clock, next_id,
                 pollVars, sessVars, engineVars,
                 threadVars>>

AddTransaction(l, ty, to) ==
  /\ next_id <= MaxTx
  /\ LET transaction == [message_id |-> next_id, type |-> ty, from |-> l,
                         to |-> to, timestamp |-> clock,
                         block_index |-> NoBlockIndex]
     IN /\ pending_transactions' =
             [pending_transactions EXCEPT ![l] = Append(@, transaction)]
        /\ accepted' = [accepted EXCEPT ![l] = Append(@, transaction)]
  /\ next_id' = next_id + 1
  /\ ret' = NoRet
  /\ UNCHANGED <<chain, validators, is_validator, clock,
                 last_processed_block, message_handlers, dispatch_count,
                 dispatch_order, invoked, sessVars, engineVars, threadVars>>

CreateBlock(l) ==
  /\ IF ~Authorized(l)
     THEN /\ ret' = [op |-> "create_block", node |-> l, val |-> "none"]
          /\ UNCHANGED <<chain, pending_transactions>>
     ELSE IF pending_transactions[l] = <<>>
     THEN /\ ret' = [op |-> "create_block", node |-> l, val |-> "none"]
          /\ UNCHANGED <<chain, pending_transactions>>
     ELSE /\ Len(chain[l]) < MaxChain
          /\ LET previous_block == Last(chain[l])
                 new_block ==
                   Block(Len(chain[l]), clock,
                         [kind |-> "transactions",
                          transactions |-> pending_transactions[l]],
                         previous_block.hash, l)
             IN chain' = [chain EXCEPT ![l] = Append(@, new_block)]
          /\ pending_transactions' = [pending_transactions EXCEPT ![l] = <<>>]
          /\ ret' = [op |-> "create_block", node |-> l, val |-> "block"]
  /\ UNCHANGED <<validators, is_validator, clock, next_id, pollVars, sessVars, engineVars,
                 threadVars>>

GetTransactionsCall(l, node, since_block) ==
  /\ chain' = [chain EXCEPT ![l] = ChainAfterGet(@, node, since_block)]
  /\ ret' = NoRet
  /\ UNCHANGED <<pending_transactions, validators, is_validator, clock,
                 next_id, pollVars, sessVars, engineVars,
                 threadVars>>

\* sync_chain(chain_data) on ledger l
SyncChainData(l, chain_data) ==
  /\ LET new_chain == RebuildChain(chain_data)
     IN IF SyncAccepts(new_chain, chain[l])
        THEN /\ chain' = [chain EXCEPT ![l] = new_chain]
             /\ ret' = [op |-> "sync_chain", node |-> l, val |-> "true"]
        ELSE /\ ret' = [op |-> "sync_chain", node |-> l, val |-> "false"]
             /\ UNCHANGED chain
  /\ UNCHANGED <<pending_transactions, validators, is_validator, clock,
                 next_id, pollVars, sessVars, engineVars,
                 threadVars>>

\* ledger l synchronised with the chain data of ledger m
SyncChain(l, m) == SyncChainData(l, GetChainData(chain[m]))

\* Two ledgers as in test_fsdp_system.py; each node retrieves the
\* transactions addressed to its own id from block 0 (admin_gui.py), and a
\* ledger is synchronised with the other ledger's get_chain_data().
Next ==
  \/ \E l \in Nodes, v \in Nodes : AddValidator(l, v)
  \/ \E l \in Nodes, v \in Nodes : RemoveValidator(l, v)
  \/ \E l \in Nodes, to \in Dests : AddTransaction(l, "session_open", to)
  \/ \E l \in Nodes : CreateBlock(l)
  \/ \E l \in Nodes : GetTransactionsCall(l, l, 0)
  \/ \E l \in Nodes : \E m \in Nodes \ {l} : SyncChain(l, m)

Spec == Init /\ [][Next]_vars

\* ------------------------------------------------- validator node and poller
MutValidatorHasWorkOffByOne(l) == Len(pending_transactions[l]) > 1

ValidatorHasWork(l) == Len(pending_transactions[l]) > 0

\* one turn of the validator's main loop
ValidatorLoop(l) ==
  IF ValidatorHasWork(l) THEN CreateBlock(l) ELSE UNCHANGED vars

HasHandlers(l, ty) == ty \in MessageType /\ Len(message_handlers[l][ty]) > 0

Bump(n) == IF n < MaxDispatch THEN n + 1 ELSE n

\* a handler whose call raises an exception
Raises(handler) == handler = "raising_handler"

MutHandlersForUnknownAsResponse(l, ty) ==
  IF ty \in MessageType THEN message_handlers[l][ty]
  ELSE message_handlers[l]["response"]

\* "msg_type = MessageType(msg_type_str)" raises for a string that is no
\* message type, and the handler loop is not reached; a type without
\* registered handlers has none to call
HandlersFor(l, ty) ==
  IF ty \in MessageType THEN message_handlers[l][ty] ELSE <<>>

\* "for handler in self.message_handlers[msg_type]: handler(transaction)":
\* the handlers called, an exception ending the loop
RECURSIVE CalledHandlers(_)
CalledHandlers(handlers) ==
  IF handlers = <<>> THEN <<>>
  ELSE IF Raises(Head(handlers)) THEN <<Head(handlers)>>
  ELSE <<Head(handlers)>> \o CalledHandlers(Tail(handlers))

Invocation(handler, tx) == [handler |-> handler, message_id |-> tx.message_id]

\* _process_transaction on the poller's record st = [count, order, last, log]
ProcessTransaction(l, st, tx) ==
  LET called == CalledHandlers(HandlersFor(l, tx.type))
  IN IF called # <<>>
     THEN [count |-> [st.count EXCEPT ![tx.message_id] = Bump(@)],
           order |-> IF st.count[tx.message_id] = 0
                     THEN Append(st.order, tx.message_id) ELSE st.order,
           last |-> st.last,
           log |-> st.log \o [j \in 1..Len(called) |->
                                Invocation(called[j], tx)]]
     ELSE st

RECURSIVE ProcessAll(_, _, _, _)
ProcessAll(l, st, txs, k) ==
  IF k > Len(txs) THEN st
  ELSE LET done == ProcessTransaction(l, st, txs[k])
       IN ProcessAll(l, [done EXCEPT !.last = Max(@, txs[k].block_index)],
                     txs, k + 1)

\* one iteration of _listen_blockchain
ListenBlockchain(l) ==
  LET transactions ==
        GetTransactionsForNode(chain[l], l, last_processed_block[l])
      st == ProcessAll(l, [count |-> dispatch_count[l],
                           order |-> dispatch_order[l],
                           last |-> last_processed_block[l],
                           log |-> <<>>],
                       transactions, 1)
  IN /\ chain' = [chain EXCEPT ![l] =
                    ChainAfterGet(@, l, last_processed_block[l])]
     /\ dispatch_count' = [dispatch_count EXCEPT ![l] = st.count]
     /\ dispatch_order' = [dispatch_order EXCEPT ![l] = st.order]
     /\ invoked' = [invoked EXCEPT ![l] = st.log]
     /\ last_processed_block' = [last_processed_block EXCEPT ![l] = st.last]
     /\ ret' = NoRet
     /\ UNCHANGED <<pending_transactions, validators, is_validator, clock,
                    next_id, message_handlers, accepted, sessVars, engineVars,
                    threadVars>>

\* the validator loop of blockchain_validator.py on one ledger whose node is
\* flagged and authorised (the admin-node ledger of test_fsdp_system.py),
\* with a poller for the node's own id and no sync
ValidatorNode == "admin-node"

InitValidatorNode ==
  /\ chain = [l \in Nodes |-> <<GenesisBlock(0)>>]
  /\ pending_transactions = [l \in Nodes |-> <<>>]
  /\ validators = [l \in Nodes |-> IF l = ValidatorNode THEN {l} ELSE {}]
  /\ is_validator = [l \in Nodes |-> l = ValidatorNode]
  /\ clock = 0
  /\ next_id = 1
  /\ ret = NoRet
  /\ InitPoll
  /\ InitSessions
  /\ InitEngine
  /\ InitThreads

NextValidatorNode ==
  \/ \E ty \in TxTypes, to \in Dests : AddTransaction(ValidatorNode, ty, to)
  \/ ValidatorLoop(ValidatorNode)
  \/ ListenBlockchain(ValidatorNode)

SpecValidatorNode ==
  /\ InitValidatorNode
  /\ [][NextValidatorNode]_vars
  /\ WF_vars(ValidatorLoop(ValidatorNode))
  /\ WF_vars(ListenBlockchain(ValidatorNode))

\* register_handler
RegisterHandler(l, message_type, handler) ==
  /\ Len(message_handlers[l][message_type]) < MaxHandlers
  /\ message_handlers' =
       [message_handlers EXCEPT ![l][message_type] = Append(@, handler)]
  /\ ret' = NoRet
  /\ UNCHANGED <<chain, pending_transactions, validators, is_validator, clock,
                 next_id, last_processed_block, dispatch_count, dispatch_order,
                 invoked, accepted, sessVars, engineVars, threadVars>>

Handlers == {"on_session_open", "on_response", "raising_handler"}

\* the validator node with handlers for responses registered while it runs;
\* the transactions it is sent are responses or of no message type
NextHandlers ==
  \/ \E h \in Handlers : RegisterHandler(ValidatorNode, "response", h)
  \/ \E ty \in {"response", "test"} :
       AddTransaction(ValidatorNode, ty, ValidatorNode)
  \/ ValidatorLoop(ValidatorNode)
  \/ ListenBlockchain(ValidatorNode)

SpecHandlers == InitValidatorNode /\ [][NextHandlers]_vars

\* ========================================================= session manager
\* A dictionary is a function on the set of its keys.  Iteration over a
\* dictionary follows the order of SessionIds / TerminalIds.
Put(f, k, v) == [x \in DOMAIN f \cup {k} |-> IF x = k THEN v ELSE f[x]]
Remove(f, k) == [x \in DOMAIN f \ {k} |-> f[x]]
KeysInOrder(order, keys) == SelectSeq(order, LAMBDA k : k \in keys)

SessionState ==
  [last_active |-> clock, reconnect_count |-> 0, is_connected |-> TRUE,
   terminals |-> {}]

\* _save_session: pickle the in-memory state of session_id, if it exists
SaveSession(mem, disk, session_id) ==
  IF session_id \in DOMAIN mem THEN Put(disk, session_id, mem[session_id])
  ELSE disk

Frame(op, sid, tid, todo, state) ==
  [op |-> op, sid |-> sid, tid |-> tid, todo |-> todo, state |-> state]

Idle(t) == pc[t] = <<>>
LockFree == lock = "free"

\* What a thread does, holding the lock, from the call on top of its stack
\* to its next acquire or to its return to the caller of the outermost call.
\* m = [sessions, stored, lock, stack].
RECURSIVE Continue(_)
Continue(m) ==
  IF m.stack = <<>> THEN m
  ELSE LET top == Head(m.stack)
           rest == Tail(m.stack)
       IN IF top.state = "acquire" THEN m
          ELSE IF top.op = "delete_session"
          THEN IF top.todo # <<>>
               \* for terminal_id in list(session.terminals.keys()):
               \*     self.close_terminal(session_id, terminal_id)
               THEN [m EXCEPT !.stack =
                       <<Frame("close_terminal", top.sid, Head(top.todo),
                               <<>>, "acquire"),
                         [top EXCEPT !.todo = Tail(@)]>> \o rest]
               \* del self.sessions[session_id]; os.remove(file_path)
               ELSE Continue([sessions |-> Remove(m.sessions, top.sid),
                              stored |-> Remove(m.stored, top.sid),
                              lock |-> "free",
                              stack |-> rest])
          ELSE \* cleanup_old_sessions: for session_id in sessions_to_delete
               IF top.todo # <<>>
               THEN [m EXCEPT !.stack =
                       <<Frame("delete_session", Head(top.todo), "-", <<>>,
                               "acquire"),
                         [top EXCEPT !.todo = Tail(@)]>> \o rest]
               ELSE Continue([m EXCEPT !.lock = "free", !.stack = rest])

Apply(t, m) ==
  /\ sessions' = m.sessions
  /\ stored' = m.stored
  /\ lock' = m.lock
  /\ pc' = [pc EXCEPT ![t] = m.stack]

LedgerUnchanged == UNCHANGED <<chain, pending_transactions, validators,
                               is_validator, next_id, pollVars, engineVars,
                               threadVars>>

Tick ==
  /\ clock < MaxTime * SecondsPerHour
  /\ clock' = clock + SecondsPerHour
  /\ UNCHANGED <<ret, sessVars>>
  /\ LedgerUnchanged

CreateSession(t, session_id) ==
  /\ Idle(t) /\ LockFree
  /\ sessions' = Put(sessions, session_id, SessionState)
  /\ stored' = SaveSession(sessions', stored, session_id)
  /\ ret' = [op |-> "create_session", node |-> session_id, val |-> "session"]
  /\ UNCHANGED <<lock, pc, clock>>
  /\ LedgerUnchanged

UpdateSessionActivity(t, session_id) ==
  /\ Idle(t)
  /\ session_id \in DOMAIN sessions
  /\ sessions' = [sessions EXCEPT ![session_id].last_active = clock]
  /\ ret' = NoRet
  /\ UNCHANGED <<stored, lock, pc, clock>>
  /\ LedgerUnchanged

MutSessionNotFoundCreates(op, session_id, val) ==
  /\ ret' = [op |-> op, node |-> session_id, val |-> val]
  /\ sessions' = Put(sessions, session_id, SessionState)
  /\ UNCHANGED stored

\* "if session_id not in self.sessions: return <failure>"
SessionNotFound(op, session_id, val) ==
  /\ ret' = [op |-> op, node |-> session_id, val |-> val]
  /\ UNCHANGED <<sessions, stored>>

MutReconnectedKeepsFlag(session) ==
  [session EXCEPT !.reconnect_count = @ + 1, !.last_active = clock]

Reconnected(session) ==
  [session EXCEPT !.is_connected = TRUE, !.reconnect_count = @ + 1,
                  !.last_active = clock]

ReconnectSession(t, session_id) ==
  /\ Idle(t) /\ LockFree
  /\ IF session_id \notin DOMAIN sessions
     THEN SessionNotFound("reconnect_session", session_id, "false")
     ELSE /\ sessions[session_id].reconnect_count < MaxReconnect
          /\ sessions' = [sessions EXCEPT ![session_id] = Reconnected(@)]
          /\ stored' = SaveSession(sessions', stored, session_id)
          /\ ret' = [op |-> "reconnect_session", node |-> session_id,
                     val |-> "true"]
  /\ UNCHANGED <<lock, pc, clock>>
  /\ LedgerUnchanged

DisconnectSession(t, session_id) ==
  /\ Idle(t)
  /\ session_id \in DOMAIN sessions
  /\ sessions' = [sessions EXCEPT ![session_id].is_connected = FALSE]
  /\ stored' = SaveSession(sessions', stored, session_id)
  /\ ret' = NoRet
  /\ UNCHANGED <<lock, pc, clock>>
  /\ LedgerUnchanged

CreateTerminal(t, session_id, terminal_id) ==
  /\ Idle(t) /\ LockFree
  /\ IF session_id \notin DOMAIN sessions
     THEN SessionNotFound("create_terminal", session_id, "none")
     ELSE /\ sessions' = [sessions EXCEPT ![session_id].terminals =
                            @ \cup {terminal_id}]
          /\ stored' = SaveSession(sessions', stored, session_id)
          /\ ret' = [op |-> "create_terminal", node |-> session_id,
                     val |-> "terminal"]
  /\ UNCHANGED <<lock, pc, clock>>
  /\ LedgerUnchanged

\* a call of close_terminal reaches "with self.lock"
CloseTerminalCall(t, session_id, terminal_id) ==
  /\ Idle(t)
  /\ pc' = [pc EXCEPT ![t] =
              <<Frame("close_terminal", session_id, terminal_id, <<>>,
                      "acquire")>>]
  /\ ret' = NoRet
  /\ UNCHANGED <<sessions, stored, lock, clock>>
  /\ LedgerUnchanged

\* close_terminal acquires the lock, runs and returns to its caller
CloseTerminalEnter(t) ==
  /\ pc[t] # <<>>
  /\ Head(pc[t]).op = "close_terminal" /\ Head(pc[t]).state = "acquire"
  /\ LockFree
  /\ LET f == Head(pc[t])
         found == /\ f.sid \in DOMAIN sessions
                  /\ f.tid \in sessions[f.sid].terminals
         mem == IF found
                THEN [sessions EXCEPT ![f.sid].terminals = @ \ {f.tid}]
                ELSE sessions
         disk == IF found THEN SaveSession(mem, stored, f.sid) ELSE stored
     IN Apply(t, Continue([sessions |-> mem, stored |-> disk,
                           lock |-> "free", stack |-> Tail(pc[t])]))
  /\ ret' = NoRet
  /\ UNCHANGED clock
  /\ LedgerUnchanged

\* a call of delete_session reaches "with self.lock"
DeleteSessionCall(t, session_id) ==
  /\ Idle(t)
  /\ pc' = [pc EXCEPT ![t] =
              <<Frame("delete_session", session_id, "-", <<>>, "acquire")>>]
  /\ ret' = NoRet
  /\ UNCHANGED <<sessions, stored, lock, clock>>
  /\ LedgerUnchanged

\* delete_session acquires the lock and runs to its first close_terminal
\* call or, for a session without terminals, to its return
DeleteSessionEnter(t) ==
  /\ pc[t] # <<>>
  /\ Head(pc[t]).op = "delete_session" /\ Head(pc[t]).state = "acquire"
  /\ LockFree
  /\ LET f == Head(pc[t])
     IN IF f.sid \in DOMAIN sessions
        THEN Apply(t, Continue(
               [sessions |-> sessions, stored |-> stored, lock |-> t,
                stack |-> <<[f EXCEPT
                               !.state = "loop",
                               !.todo = KeysInOrder(TerminalIds,
                                          sessions[f.sid].terminals)]>>
                          \o Tail(pc[t])]))
        ELSE Apply(t, Continue(
               [sessions |-> sessions, stored |-> stored, lock |-> "free",
                stack |-> Tail(pc[t])]))
  /\ ret' = NoRet
  /\ UNCHANGED clock
  /\ LedgerUnchanged

MutExpiredEither(session, current_time, max_age_seconds) ==
  ~session.is_connected \/ (current_time - session.last_active) > max_age_seconds

Expired(session, current_time, max_age_seconds) ==
  ~session.is_connected /\ (current_time - session.last_active) > max_age_seconds

SessionsToDelete(max_age_hours) ==
  LET current_time == clock
      max_age_seconds == max_age_hours * SecondsPerHour
  IN KeysInOrder(SessionIds,
       {s \in DOMAIN sessions :
          Expired(sessions[s], current_time, max_age_seconds)})

\* cleanup_old_sessions acquires the lock, selects the sessions to delete
\* and runs to its first delete_session call or, with none selected, to its
\* return
CleanupOldSessions(t, max_age_hours) ==
  /\ Idle(t) /\ LockFree
  /\ Apply(t, Continue(
       [sessions |-> sessions, stored |-> stored, lock |-> t,
        stack |-> <<Frame("cleanup_old_sessions", "-", "-",
                          SessionsToDelete(max_age_hours), "loop")>>]))
  /\ ret' = NoRet
  /\ UNCHANGED clock
  /\ LedgerUnchanged

\* one round of the background persistence thread
AutoPersist ==
  /\ LockFree
  /\ stored' = [x \in DOMAIN stored \cup DOMAIN sessions |->
                  IF x \in DOMAIN sessions THEN sessions[x] ELSE stored[x]]
  /\ UNCHANGED <<sessions, lock, pc, clock, ret>>
  /\ LedgerUnchanged

NextSessions ==
  \/ Tick
  \/ AutoPersist
  \/ \E t \in Threads, s \in Range(SessionIds) : CreateSession(t, s)
  \/ \E t \in Threads, s \in Range(SessionIds) : UpdateSessionActivity(t, s)
  \/ \E t \in Threads, s \in Range(SessionIds) : ReconnectSession(t, s)
  \/ \E t \in Threads, s \in Range(SessionIds) : DisconnectSession(t, s)
  \/ \E t \in Threads, s \in Range(SessionIds), x \in Range(TerminalIds) :
       CreateTerminal(t, s, x)
  \/ \E t \in Threads, s \in Range(SessionIds), x \in Range(TerminalIds) :
       CloseTerminalCall(t, s, x)
  \/ \E t \in Threads : CloseTerminalEnter(t)
  \/ \E t \in Threads, s \in Range(SessionIds) : DeleteSessionCall(t, s)
  \/ \E t \in Threads : DeleteSessionEnter(t)
  \/ \E t \in Threads, h \in AgeChoices : CleanupOldSessions(t, h)

SpecSessions == Init /\ [][NextSessions]_vars

\* ==================================================== file transfer engine
\* One FileTransferManager on the admin node's protocol.  A file is the
\* sequence of its bytes; SHA-256 of a byte string is modelled as the
\* collision-free pair <<"sha256", bytes>>, and "" (the value
\* calculate_file_hash returns on an error) as NoHash.
Bytes == 0..255
SourcePath == "./test_file.bin"
OutputPath == "./out/test_file.bin"
Paths == {SourcePath, OutputPath}
TransferIds == {"transfer-001"}
UnknownTransferId == "transfer-404"
TransferNode == "admin-node"
None == "None"
NoTime == 0 - 1
NoHash == <<>>

Min(a, b) == IF a <= b THEN a ELSE b

Pow2(n) == 2 ^ n

RECURSIVE SumTo(_, _)
SumTo(f, n) == IF n = 0 THEN 0 ELSE f[n] + SumTo(f, n - 1)

\* the files the user uploads: one of every size 0..n, no two bytes of a
\* file equal, so that every misplaced or altered byte shows
FilesUpTo(n) == {[i \in 1..k |-> i] : k \in 0..n}

\* base64: the bits of the bytes, most significant first, regrouped in
\* sextets, the last one padded with zero bits, and '=' padding to a
\* multiple of four characters
BitAt(s, k) ==
  IF k > 8 * Len(s) THEN 0
  ELSE (s[((k - 1) \div 8) + 1] \div Pow2(7 - ((k - 1) % 8))) % 2

B64Encode(s) ==
  LET n == (8 * Len(s) + 5) \div 6
  IN [sextets |-> [j \in 1..n |->
                     SumTo([i \in 1..6 |-> BitAt(s, 6 * (j - 1) + i) * Pow2(6 - i)], 6)],
      padding |-> (3 - (Len(s) % 3)) % 3]

SextetBitAt(e, k) ==
  (e.sextets[((k - 1) \div 6) + 1] \div Pow2(5 - ((k - 1) % 6))) % 2

B64Decode(e) ==
  LET n == (6 * Len(e.sextets)) \div 8
  IN [j \in 1..n |->
        SumTo([i \in 1..8 |-> SextetBitAt(e, 8 * (j - 1) + i) * Pow2(8 - i)], 8)]

CalculateFileHash(fs, file_path) ==
  IF file_path \in DOMAIN fs THEN <<"sha256", fs[file_path]>> ELSE NoHash

CalculateChunkHash(chunk_data) == <<"sha256", chunk_data>>

MutTotalChunksFloor(file_size) == file_size \div CHUNK_SIZE

TotalChunks(file_size) == (file_size + CHUNK_SIZE - 1) \div CHUNK_SIZE

\* f.seek(i * CHUNK_SIZE); f.read(CHUNK_SIZE)
ReadChunk(content, i) ==
  SubSeq(content, i * CHUNK_SIZE + 1, Min((i + 1) * CHUNK_SIZE, Len(content)))

ChunkInfo(chunk_index, chunk_data) ==
  [chunk_index |-> chunk_index,
   chunk_hash |-> CalculateChunkHash(chunk_data),
   chunk_size |-> Len(chunk_data),
   is_verified |-> FALSE]

FileTransferInfo(file_path, session_id) ==
  LET file_size == Len(files[file_path])
      total_chunks == TotalChunks(file_size)
  IN [file_path |-> file_path,
      file_size |-> file_size,
      total_chunks |-> total_chunks,
      chunks |-> [i \in 0..(total_chunks - 1) |->
                    ChunkInfo(i, ReadChunk(files[file_path], i))],
      status |-> "pending",
      created_at |-> clock,
      completed_at |-> NoTime,
      file_hash |-> CalculateFileHash(files, file_path),
      direction |-> "upload",
      session_id |-> session_id]

IsComplete(info) == \A i \in DOMAIN info.chunks : info.chunks[i].is_verified

VerifiedChunks(info) ==
  Cardinality({i \in DOMAIN info.chunks : info.chunks[i].is_verified})

\* get_progress: the quotient (verified_chunks / total_chunks) * 100 as the
\* pair <<numerator, denominator>>, and 0.0 as <<0, 1>>
GetProgress(info) ==
  IF info.total_chunks = 0 THEN <<0, 1>>
  ELSE <<VerifiedChunks(info) * 100, info.total_chunks>>

\* self.progress_callbacks[transfer_id](progress)
ProgressCall(transfer_id, progress) ==
  [transfer_id |-> transfer_id, progress |-> progress]

NodeType(l) == IF l = "admin-node" THEN "admin" ELSE "target"

FSDPSession(admin_id, target_id) ==
  [admin_id |-> admin_id, target_id |-> target_id]

\* The part of the state a call of the engine works on:
\* e = [transfers, pool, next_id, accepted, calls], pool being the pending
\* pool of the node's ledger and calls the calls of progress callbacks.
Engine ==
  [transfers |-> transfers, pool |-> pending_transactions[TransferNode],
   next_id |-> next_id, accepted |-> accepted[TransferNode],
   calls |-> progress_calls]

\* FSDPProtocol.send_message followed by add_transaction
SendMessage(e, to_node, message_type, data) ==
  LET transaction == [message_id |-> e.next_id, type |-> message_type,
                      from |-> TransferNode, to |-> to_node,
                      timestamp |-> clock, block_index |-> NoBlockIndex,
                      data |-> data]
  IN [e EXCEPT !.pool = Append(@, transaction),
               !.accepted = Append(@, transaction),
               !.next_id = @ + 1]

MutKnownSessionNever(session_id) == FALSE

\* "if transfer_info.session_id: session = self.protocol.sessions.get(...)
\*  if session:"
KnownSession(session_id) ==
  session_id # None /\ session_id \in DOMAIN protocol_sessions

Counterpart(session) ==
  IF NodeType(TransferNode) = "admin" THEN session.target_id
  ELSE session.admin_id

CompletionType(info) ==
  IF info.direction = "upload" THEN "file_upload_complete"
  ELSE "file_download_complete"

CompleteTransfer(e, transfer_id) ==
  IF transfer_id \notin DOMAIN e.transfers THEN e
  ELSE LET done == [e EXCEPT !.transfers[transfer_id].status = "completed",
                             !.transfers[transfer_id].completed_at = clock]
           info == done.transfers[transfer_id]
       IN IF KnownSession(info.session_id)
          THEN SendMessage(done, Counterpart(protocol_sessions[info.session_id]),
                           CompletionType(info),
                           [transfer_id |-> transfer_id, status |-> "success"])
          ELSE done

MutHashMatchesAlways(a, b) == TRUE

HashMatches(a, b) == a = b

\* verify_chunk: [e |-> the state after the call, val |-> what it returns]
VerifyChunkResult(e, transfer_id, chunk_index, chunk_hash) ==
  IF transfer_id \notin DOMAIN e.transfers THEN [e |-> e, val |-> FALSE]
  ELSE LET transfer_info == e.transfers[transfer_id]
       IN IF chunk_index \in DOMAIN transfer_info.chunks
          THEN IF HashMatches(transfer_info.chunks[chunk_index].chunk_hash,
                              chunk_hash)
               THEN LET verified == [e EXCEPT !.transfers[transfer_id]
                                        .chunks[chunk_index].is_verified = TRUE]
                        marked ==
                          IF transfer_id \in progress_callbacks
                          THEN [verified EXCEPT !.calls = Append(@,
                                  ProgressCall(transfer_id,
                                    GetProgress(verified.transfers[transfer_id])))]
                          ELSE verified
                    IN [e |-> IF IsComplete(marked.transfers[transfer_id])
                              THEN CompleteTransfer(marked, transfer_id)
                              ELSE marked,
                        val |-> TRUE]
               ELSE [e |-> e, val |-> FALSE]
          ELSE [e |-> e, val |-> FALSE]

\* open(output_path, 'ab' if chunk_index > 0 else 'wb'); f.seek(...);
\* f.write(chunk_data): 'wb' truncates the file, and a file opened for
\* appending writes at its end wherever the position was set
WriteChunk(fs, output_path, chunk_index, chunk_data) ==
  LET old == IF output_path \in DOMAIN fs THEN fs[output_path] ELSE <<>>
  IN Put(fs, output_path,
         IF chunk_index > 0 THEN old \o chunk_data ELSE chunk_data)

ApplyEngine(e) ==
  /\ transfers' = e.transfers
  /\ pending_transactions' =
       [pending_transactions EXCEPT ![TransferNode] = e.pool]
  /\ accepted' = [accepted EXCEPT ![TransferNode] = e.accepted]
  /\ next_id' = e.next_id
  /\ progress_calls' = e.calls

EngineFrame ==
  UNCHANGED <<chain, validators, is_validator, clock, last_processed_block,
              message_handlers, dispatch_count, dispatch_order, invoked,
              sessVars, terminals, progress_callbacks, threadVars>>

RetOf(op, id, val) == [op |-> op, node |-> id, val |-> val]

\* the user creates the file to upload (test_fsdp_system.py, TEST 4)
CreateFile(content) ==
  /\ SourcePath \notin DOMAIN files
  /\ files' = Put(files, SourcePath, content)
  /\ ret' = NoRet
  /\ UNCHANGED <<transfers, protocol_sessions, pending_transactions,
                 accepted, next_id, progress_calls>>
  /\ EngineFrame

\* FSDPProtocol.create_session on the admin node
ProtocolCreateSession(session_id, target_id) ==
  /\ NodeType(TransferNode) = "admin"
  /\ session_id \notin DOMAIN protocol_sessions
  /\ next_id <= MaxMessages
  /\ protocol_sessions' =
       Put(protocol_sessions, session_id, FSDPSession(TransferNode, target_id))
  /\ ApplyEngine(SendMessage(Engine, target_id, "session_open",
                             [session_id |-> session_id]))
  /\ ret' = RetOf("create_session", session_id, "session_id")
  /\ UNCHANGED files
  /\ EngineFrame

PrepareUpload(file_path, transfer_id, session_id) ==
  /\ IF file_path \notin DOMAIN files
     THEN /\ ret' = RetOf("prepare_upload", transfer_id, "none")
          /\ UNCHANGED transfers
     ELSE /\ transfers' = Put(transfers, transfer_id,
                              FileTransferInfo(file_path, session_id))
          /\ ret' = RetOf("prepare_upload", transfer_id, "transfer_info")
  /\ UNCHANGED <<files, protocol_sessions, pending_transactions, accepted,
                 next_id, progress_calls>>
  /\ EngineFrame

StartUpload(transfer_id, target_node) ==
  /\ IF transfer_id \notin DOMAIN transfers
     THEN /\ ret' = RetOf("start_upload", transfer_id, "false")
          /\ UNCHANGED <<transfers, pending_transactions, accepted, next_id,
                         progress_calls>>
     ELSE /\ next_id <= MaxMessages
          /\ ApplyEngine(SendMessage(
               [Engine EXCEPT !.transfers[transfer_id].status = "in_progress"],
               target_node, "file_upload_start",
               [transfer_id |-> transfer_id]))
          /\ ret' = RetOf("start_upload", transfer_id, "true")
  /\ UNCHANGED <<files, protocol_sessions>>
  /\ EngineFrame

VerifyChunk(transfer_id, chunk_index, chunk_hash) ==
  /\ LET r == VerifyChunkResult(Engine, transfer_id, chunk_index, chunk_hash)
     IN /\ r.e.next_id <= MaxMessages + 1
        /\ Len(r.e.calls) <= MaxProgressCalls
        /\ ApplyEngine(r.e)
        /\ ret' = RetOf("verify_chunk", transfer_id,
                        IF r.val THEN "true" ELSE "false")
  /\ UNCHANGED <<files, protocol_sessions>>
  /\ EngineFrame

ReceiveChunk(transfer_id, chunk_index, chunk_data_b64, chunk_hash, output_path) ==
  /\ LET chunk_data == B64Decode(chunk_data_b64)
         calculated_hash == CalculateChunkHash(chunk_data)
     IN IF ~HashMatches(calculated_hash, chunk_hash)
        THEN /\ ret' = RetOf("receive_chunk", transfer_id, "false")
             /\ UNCHANGED <<files, transfers, pending_transactions, accepted,
                            next_id, progress_calls>>
        ELSE LET written == WriteChunk(files, output_path, chunk_index,
                                       chunk_data)
                 r == IF transfer_id \in DOMAIN transfers
                      THEN VerifyChunkResult(Engine, transfer_id, chunk_index,
                                             chunk_hash)
                      ELSE [e |-> Engine, val |-> FALSE]
             IN /\ Len(written[output_path]) <= MaxFileSize
                /\ r.e.next_id <= MaxMessages + 1
                /\ Len(r.e.calls) <= MaxProgressCalls
                /\ files' = written
                /\ ApplyEngine(r.e)
                /\ ret' = RetOf("receive_chunk", transfer_id, "true")
  /\ UNCHANGED protocol_sessions
  /\ EngineFrame

MutFileHashMatchesAlways(calculated_hash, file_hash) == TRUE

\* "if calculated_hash == transfer_info.file_hash"
FileHashMatches(calculated_hash, file_hash) == calculated_hash = file_hash

VerifyFile(transfer_id, file_path) ==
  /\ IF transfer_id \notin DOMAIN transfers
     THEN /\ ret' = RetOf("verify_file", transfer_id, "false")
          /\ UNCHANGED transfers
     ELSE IF transfers[transfer_id].file_hash = NoHash
     THEN /\ ret' = RetOf("verify_file", transfer_id, "false")
          /\ UNCHANGED transfers
     ELSE IF FileHashMatches(CalculateFileHash(files, file_path),
                             transfers[transfer_id].file_hash)
     THEN /\ transfers' = [transfers EXCEPT ![transfer_id].status = "verifying"]
          /\ ret' = RetOf("verify_file", transfer_id, "true")
     ELSE /\ transfers' = [transfers EXCEPT ![transfer_id].status = "failed"]
          /\ ret' = RetOf("verify_file", transfer_id, "false")
  /\ UNCHANGED <<files, protocol_sessions, pending_transactions, accepted,
                 next_id, progress_calls>>
  /\ EngineFrame

CancelTransfer(transfer_id) ==
  /\ transfers' = IF transfer_id \in DOMAIN transfers
                  THEN [transfers EXCEPT ![transfer_id].status = "failed"]
                  ELSE transfers
  /\ ret' = NoRet
  /\ UNCHANGED <<files, protocol_sessions, pending_transactions, accepted,
                 next_id, progress_calls>>
  /\ EngineFrame

\* register_progress_callback
RegisterProgressCallback(transfer_id) ==
  /\ progress_callbacks' = progress_callbacks \cup {transfer_id}
  /\ ret' = NoRet
  /\ UNCHANGED <<files, transfers, protocol_sessions, pending_transactions,
                 accepted, next_id, progress_calls, chain, validators,
                 is_validator, clock, last_processed_block, message_handlers,
                 dispatch_count, dispatch_order, invoked, sessVars, terminals,
                 threadVars>>

\* what send_chunk puts in the chunk message of chunk_index
SentChunk(transfer_id, chunk_index) ==
  LET transfer_info == transfers[transfer_id]
      chunk_data == ReadChunk(files[transfer_info.file_path], chunk_index)
  IN [chunk_index |-> chunk_index,
      chunk_data |-> B64Encode(chunk_data),
      chunk_hash |-> transfer_info.chunks[chunk_index].chunk_hash,
      chunk_size |-> transfer_info.chunks[chunk_index].chunk_size]

\* a chunk message altered on its way: the first byte of the data changed
Tampered(m) ==
  LET chunk_data == B64Decode(m.chunk_data)
  IN [m EXCEPT !.chunk_data =
        B64Encode([chunk_data EXCEPT ![1] = (@ + 1) % 256])]

\* the same, the hash recomputed to fit the altered data
Forged(m) ==
  LET t == Tampered(m)
  IN [t EXCEPT !.chunk_hash = CalculateChunkHash(B64Decode(t.chunk_data))]

ChunkMessages(transfer_id) ==
  UNION {LET m == SentChunk(transfer_id, i)
         IN {m, Tampered(m), Forged(m)} :
           i \in DOMAIN transfers[transfer_id].chunks}

NextTransfer ==
  \/ \E content \in FilesUpTo(MaxFileSize) : CreateFile(content)
  \/ \E s \in {SessionIds[1]} : ProtocolCreateSession(s, "target-node")
  \/ \E x \in TransferIds : PrepareUpload(SourcePath, x, SessionIds[1])
  \/ \E x \in TransferIds : StartUpload(x, "target-node")
  \/ \E x \in DOMAIN transfers : \E i \in DOMAIN transfers[x].chunks :
       \E h \in {transfers[x].chunks[i].chunk_hash, NoHash} :
         VerifyChunk(x, i, h)
  \/ \E x \in DOMAIN transfers : \E m \in ChunkMessages(x) :
       ReceiveChunk(x, m.chunk_index, m.chunk_data, m.chunk_hash, OutputPath)
  \/ \E x \in TransferIds \cup {UnknownTransferId}, p \in Paths :
       VerifyFile(x, p)
  \/ \E x \in TransferIds : CancelTransfer(x)

SpecTransfer == Init /\ [][NextTransfer]_vars

\* An upload carried through: send_chunk reads chunk_index of the file and
\* its message reaches receive_chunk, each chunk once, in whatever order
DeliverChunk(transfer_id, chunk_index) ==
  /\ ~transfers[transfer_id].chunks[chunk_index].is_verified
  /\ LET m == SentChunk(transfer_id, chunk_index)
     IN ReceiveChunk(transfer_id, m.chunk_index, m.chunk_data, m.chunk_hash,
                     OutputPath)

NextDelivery ==
  \/ \E content \in FilesUpTo(MaxFileSize) : CreateFile(content)
  \/ \E s \in {SessionIds[1]} : ProtocolCreateSession(s, "target-node")
  \/ \E x \in TransferIds \ DOMAIN transfers :
       PrepareUpload(SourcePath, x, SessionIds[1])
  \/ \E x \in TransferIds : StartUpload(x, "target-node")
  \/ \E x \in DOMAIN transfers : \E i \in DOMAIN transfers[x].chunks :
       DeliverChunk(x, i)
  \/ \E x \in TransferIds : VerifyFile(x, OutputPath)

SpecDelivery == Init /\ [][NextDelivery]_vars

\* a transfer whose progress is reported to a callback
NextProgress ==
  \/ \E content \in FilesUpTo(MaxFileSize) : CreateFile(content)
  \/ \E x \in TransferIds \ DOMAIN transfers :
       PrepareUpload(SourcePath, x, SessionIds[1])
  \/ \E x \in TransferIds : RegisterProgressCallback(x)
  \/ \E x \in DOMAIN transfers : \E i \in DOMAIN transfers[x].chunks :
       \E h \in {transfers[x].chunks[i].chunk_hash, NoHash} :
         VerifyChunk(x, i, h)
  \/ \E x \in DOMAIN transfers : \E i \in DOMAIN transfers[x].chunks :
       \E m \in {SentChunk(x, i), Tampered(SentChunk(x, i))} :
         ReceiveChunk(x, m.chunk_index, m.chunk_data, m.chunk_hash, OutputPath)

SpecProgress == Init /\ [][NextProgress]_vars

\* ====================================================== isolated terminals
\* A command is the sequence of its characters.  Path.home() is Home, the
\* directories that exist are Directories, and no path used here contains
\* "." or "..", so os.path.abspath leaves it as it is.
Home == <<"/", "h">>
DirA == <<"/", "a">>
DirB == <<"/", "b">>
Directories == {Home, DirA, DirB}
CdA == <<"c", "d", " ", "/", "a">>
CdB == <<"c", "d", " ", "/", "b">>
CdMissing == <<"c", "d", " ", "/", "x">>
SetX == <<"X", "=", "1">>
Pwd == <<"p", "w", "d">>
Cd == <<"c", "d">>
Commands == {CdA, CdB, CdMissing, Cd, SetX, Pwd}
InitialEnv == Put(<<>>, <<"H", "O", "M", "E">>, Home)

RECURSIVE StripLeft(_, _)
StripLeft(s, chars) ==
  IF s # <<>> /\ Head(s) \in chars THEN StripLeft(Tail(s), chars) ELSE s

RECURSIVE StripRight(_, _)
StripRight(s, chars) ==
  IF s # <<>> /\ Last(s) \in chars
  THEN StripRight(SubSeq(s, 1, Len(s) - 1), chars) ELSE s

\* str.strip(chars)
Strip(s, chars) == StripRight(StripLeft(s, chars), chars)

StartsWith(s, prefix) ==
  Len(s) >= Len(prefix) /\ SubSeq(s, 1, Len(prefix)) = prefix

Contains(s, ch) == \E k \in 1..Len(s) : s[k] = ch

\* command.split('=', 1)
SplitFirst(s, ch) ==
  IF Contains(s, ch)
  THEN LET k == CHOOSE k \in 1..Len(s) :
                  s[k] = ch /\ \A j \in 1..(k - 1) : s[j] # ch
       IN <<SubSeq(s, 1, k - 1), SubSeq(s, k + 1, Len(s))>>
  ELSE <<s>>

IsAbs(path) == path # <<>> /\ Head(path) = "/"

IsolatedTerminal ==
  [current_dir |-> Home, env |-> InitialEnv, command_history |-> <<>>]

Result(output, error, exit_code, cwd) ==
  [output |-> output, error |-> error, exit_code |-> exit_code, cwd |-> cwd]

\* _handle_cd: [terminal |-> the terminal afterwards, result |-> the reply]
HandleCd(terminal, path) ==
  LET target_dir ==
        IF path = <<"~">> \/ path = <<>> THEN Home
        ELSE IF path = <<"-">> THEN Home
        ELSE IF IsAbs(path) THEN path
        ELSE terminal.current_dir \o <<"/">> \o path
  IN IF target_dir \in Directories
     THEN [terminal |-> [terminal EXCEPT !.current_dir = target_dir],
           result |-> Result(<<>>, "", 0, target_dir)]
     ELSE [terminal |-> terminal,
           result |-> Result(<<>>, "Directory not found", 1,
                             terminal.current_dir)]

\* what the shell prints for the command, run with cwd=current_dir; a cd
\* typed without a path changes the directory of the child process only
ShellOutput(terminal, command) ==
  IF command = Pwd THEN terminal.current_dir ELSE <<>>

\* IsolatedTerminal.execute_command
ExecuteCommand(terminal, command) ==
  LET logged == [terminal EXCEPT !.command_history = Append(@, command)]
      stripped == Strip(command, {" "})
  IN IF StartsWith(stripped, <<"c", "d", " ">>)
     THEN HandleCd(logged, Strip(SubSeq(stripped, 4, Len(stripped)), {" "}))
     ELSE IF /\ Contains(command, "=")
             /\ ~StartsWith(command, <<"e", "c", "h", "o">>)
             /\ ~Contains(SplitFirst(command, "=")[1], " ")
     THEN LET parts == SplitFirst(command, "=")
              var_name == Strip(parts[1], {" "})
              var_value == Strip(Strip(Strip(parts[2], {" "}), {"\""}), {"'"})
          IN [terminal |-> [logged EXCEPT !.env = Put(@, var_name, var_value)],
              result |-> Result(var_name \o <<"=">> \o var_value, "", 0,
                                logged.current_dir)]
     ELSE [terminal |-> logged,
           result |-> Result(ShellOutput(logged, command), "", 0,
                             logged.current_dir)]

MutStoreTerminalSharedDir(ts, terminal_id, terminal) ==
  [u \in DOMAIN ts |->
     IF u = terminal_id THEN terminal
     ELSE [ts[u] EXCEPT !.current_dir = terminal.current_dir]]

\* the writes of execute_command go to the fields of the terminal it was
\* called on
StoreTerminal(ts, terminal_id, terminal) ==
  [ts EXCEPT ![terminal_id] = terminal]

CommandsRun ==
  SumTo([k \in 1..Len(TerminalIds) |->
           IF TerminalIds[k] \in DOMAIN terminals
           THEN Len(terminals[TerminalIds[k]].command_history) ELSE 0],
        Len(TerminalIds))

TerminalFrame ==
  UNCHANGED <<chain, pending_transactions, validators, is_validator, clock,
              next_id, pollVars, sessVars, files, transfers,
              protocol_sessions, progress_callbacks, progress_calls,
              threadVars>>

\* TerminalManager.create_terminal
TmCreateTerminal(terminal_id) ==
  /\ IF terminal_id \in DOMAIN terminals
     THEN /\ ret' = RetOf("create_terminal", terminal_id, FALSE)
          /\ UNCHANGED terminals
     ELSE /\ terminals' = Put(terminals, terminal_id, IsolatedTerminal)
          /\ ret' = RetOf("create_terminal", terminal_id, TRUE)
  /\ TerminalFrame

\* TerminalManager.execute_command
TmExecuteCommand(terminal_id, command) ==
  /\ IF terminal_id \in DOMAIN terminals
     THEN /\ CommandsRun < MaxCommands
          /\ LET r == ExecuteCommand(terminals[terminal_id], command)
             IN /\ terminals' = StoreTerminal(terminals, terminal_id, r.terminal)
                /\ ret' = RetOf("execute_command", terminal_id, r.result)
     ELSE /\ ret' = RetOf("execute_command", terminal_id, None)
          /\ UNCHANGED terminals
  /\ TerminalFrame

\* TerminalManager.close_terminal
TmCloseTerminal(terminal_id) ==
  /\ IF terminal_id \in DOMAIN terminals
     THEN /\ terminals' = Remove(terminals, terminal_id)
          /\ ret' = RetOf("close_terminal", terminal_id, TRUE)
     ELSE /\ ret' = RetOf("close_terminal", terminal_id, FALSE)
          /\ UNCHANGED terminals
  /\ TerminalFrame

NextTerminals ==
  \/ \E t \in Range(TerminalIds) : TmCreateTerminal(t)
  \/ \E t \in Range(TerminalIds), c \in Commands : TmExecuteCommand(t, c)
  \/ \E t \in Range(TerminalIds) : TmCloseTerminal(t)

SpecTerminals == Init /\ [][NextTerminals]_vars

\* ========================================================== ledger threads
\* The calls of FSDPBlockchain taken apart at the points where a thread can
\* be overtaken by another: the entry of "with self.lock", and the
\* statements inside and outside of it.  Every step records in access which
\* of self.chain and self.pending_transactions it read or wrote, and whether
\* the thread held the lock of that ledger while it did.
Access(t, l, op, fields) ==
  [thread |-> t, node |-> l, op |-> op, fields |-> fields,
   locked |-> ledger_lock[l] = t]

At(t, op, at) == thread_pc[t].op = op /\ thread_pc[t].at = at

IdleAt(t) == thread_pc[t] = IdleThread

Goto(t, op, at, l, local) ==
  thread_pc' = [thread_pc EXCEPT ![t] =
                  [op |-> op, at |-> at, node |-> l, local |-> local]]

Return(t) == thread_pc' = [thread_pc EXCEPT ![t] = IdleThread]

MutLedgerLockFreeAlways(l) == TRUE

\* "with self.lock:" can be entered
LedgerLockFree(l) == ledger_lock[l] = "free"

Acquire(t, l) == ledger_lock' = [ledger_lock EXCEPT ![l] = t]

Release(l) == ledger_lock' = [ledger_lock EXCEPT ![l] = "free"]

ThreadFrame ==
  UNCHANGED <<validators, is_validator, clock, last_processed_block,
              message_handlers, dispatch_count, dispatch_order, invoked,
              sessVars, engineVars>>

\* add_transaction enters "with self.lock"
AddTransactionAcquire(t, l, ty, to) ==
  /\ IdleAt(t)
  /\ next_id <= MaxTx
  /\ LedgerLockFree(l)
  /\ Acquire(t, l)
  /\ Goto(t, "add_transaction", "locked", l,
          <<[message_id |-> next_id, type |-> ty, from |-> l, to |-> to,
             timestamp |-> NoBlockIndex, block_index |-> NoBlockIndex]>>)
  /\ next_id' = next_id + 1
  /\ access' = Access(t, l, "add_transaction", {})
  /\ ret' = NoRet
  /\ UNCHANGED <<chain, pending_transactions, accepted>>
  /\ ThreadFrame

\* transaction['timestamp'] = time.time(); append; return True
AddTransactionAppend(t) ==
  /\ At(t, "add_transaction", "locked")
  /\ LET l == thread_pc[t].node
         transaction == [thread_pc[t].local[1] EXCEPT !.timestamp = clock]
     IN /\ pending_transactions' =
             [pending_transactions EXCEPT ![l] = Append(@, transaction)]
        /\ accepted' = [accepted EXCEPT ![l] = Append(@, transaction)]
        /\ access' = Access(t, l, "add_transaction", {"pool"})
        /\ Release(l)
        /\ ret' = RetOf("add_transaction", l, "true")
  /\ Return(t)
  /\ UNCHANGED <<chain, next_id>>
  /\ ThreadFrame

\* create_block: "if not self.is_validator or self.node_id not in
\* self.validators: return None"
CreateBlockCheck(t, l) ==
  /\ IdleAt(t)
  /\ IF Authorized(l)
     THEN /\ Goto(t, "create_block", "acquire", l, <<>>)
          /\ ret' = NoRet
     ELSE /\ UNCHANGED thread_pc
          /\ ret' = RetOf("create_block", l, "none")
  /\ access' = Access(t, l, "create_block", {})
  /\ UNCHANGED <<chain, pending_transactions, accepted, next_id, ledger_lock>>
  /\ ThreadFrame

\* create_block enters "with self.lock"
CreateBlockAcquire(t) ==
  /\ At(t, "create_block", "acquire")
  /\ LedgerLockFree(thread_pc[t].node)
  /\ Acquire(t, thread_pc[t].node)
  /\ Goto(t, "create_block", "locked", thread_pc[t].node, <<>>)
  /\ access' = Access(t, thread_pc[t].node, "create_block", {})
  /\ ret' = NoRet
  /\ UNCHANGED <<chain, pending_transactions, accepted, next_id>>
  /\ ThreadFrame

\* "if not self.pending_transactions: return None", else new_block is built
\* from the last block and a copy of the pool
CreateBlockBuild(t) ==
  /\ At(t, "create_block", "locked")
  /\ LET l == thread_pc[t].node
     IN IF pending_transactions[l] = <<>>
        THEN /\ Release(l)
             /\ Return(t)
             /\ access' = Access(t, l, "create_block", {"pool"})
             /\ ret' = RetOf("create_block", l, "none")
        ELSE /\ Len(chain[l]) < MaxChain
             /\ Goto(t, "create_block", "built", l,
                     <<Block(Len(chain[l]), clock,
                             [kind |-> "transactions",
                              transactions |-> pending_transactions[l]],
                             Last(chain[l]).hash, l)>>)
             /\ access' = Access(t, l, "create_block", {"pool", "chain"})
             /\ ret' = NoRet
             /\ UNCHANGED ledger_lock
  /\ UNCHANGED <<chain, pending_transactions, accepted, next_id>>
  /\ ThreadFrame

\* self.chain.append(new_block)
CreateBlockAppend(t) ==
  /\ At(t, "create_block", "built")
  /\ LET l == thread_pc[t].node
     IN /\ chain' = [chain EXCEPT ![l] = Append(@, thread_pc[t].local[1])]
        /\ Goto(t, "create_block", "appended", l, <<>>)
        /\ access' = Access(t, l, "create_block", {"chain"})
  /\ ret' = NoRet
  /\ UNCHANGED <<pending_transactions, accepted, next_id, ledger_lock>>
  /\ ThreadFrame

\* self.pending_transactions.clear(); return new_block
CreateBlockClear(t) ==
  /\ At(t, "create_block", "appended")
  /\ LET l == thread_pc[t].node
     IN /\ pending_transactions' = [pending_transactions EXCEPT ![l] = <<>>]
        /\ access' = Access(t, l, "create_block", {"pool"})
        /\ Release(l)
        /\ ret' = RetOf("create_block", l, "block")
  /\ Return(t)
  /\ UNCHANGED <<chain, accepted, next_id>>
  /\ ThreadFrame

\* blockchain_validator.py: "if len(blockchain.pending_transactions) > 0:
\* block = blockchain.create_block()", up to the entry of the lock
ValidatorLoopCheck(t, l) ==
  /\ IdleAt(t)
  /\ IF ValidatorHasWork(l)
     THEN IF Authorized(l)
          THEN /\ Goto(t, "create_block", "acquire", l, <<>>)
               /\ ret' = NoRet
          ELSE /\ UNCHANGED thread_pc
               /\ ret' = RetOf("create_block", l, "none")
     ELSE /\ UNCHANGED thread_pc
          /\ ret' = NoRet
  /\ access' = Access(t, l, "validator_loop", {"pool"})
  /\ UNCHANGED <<chain, pending_transactions, accepted, next_id, ledger_lock>>
  /\ ThreadFrame

\* is_chain_valid, from its call to its return
IsChainValidCall(t, l) ==
  /\ IdleAt(t)
  /\ access' = Access(t, l, "is_chain_valid", {"chain"})
  /\ ret' = RetOf("is_chain_valid", l,
                  IF IsChainValid(chain[l], validators[l]) THEN "true"
                  ELSE "false")
  /\ UNCHANGED <<chain, pending_transactions, accepted, next_id, ledger_lock,
                 thread_pc>>
  /\ ThreadFrame

\* get_transactions_for_node, from its call to its return
GetTransactionsThread(t, l, node, since_block) ==
  /\ IdleAt(t)
  /\ chain' = [chain EXCEPT ![l] = ChainAfterGet(@, node, since_block)]
  /\ access' = Access(t, l, "get_transactions_for_node", {"chain"})
  /\ ret' = NoRet
  /\ UNCHANGED <<pending_transactions, accepted, next_id, ledger_lock,
                 thread_pc>>
  /\ ThreadFrame

\* get_chain_length
GetChainLength(t, l) ==
  /\ IdleAt(t)
  /\ access' = Access(t, l, "get_chain_length", {"chain"})
  /\ ret' = RetOf("get_chain_length", l, Len(chain[l]))
  /\ UNCHANGED <<chain, pending_transactions, accepted, next_id, ledger_lock,
                 thread_pc>>
  /\ ThreadFrame

\* get_chain_data of ledger m, whose result a thread keeps for sync_chain
GetChainDataThread(t, m) ==
  /\ IdleAt(t)
  /\ Goto(t, "get_chain_data", "returned", m, GetChainData(chain[m]))
  /\ access' = Access(t, m, "get_chain_data", {"chain"})
  /\ ret' = NoRet
  /\ UNCHANGED <<chain, pending_transactions, accepted, next_id, ledger_lock>>
  /\ ThreadFrame

\* sync_chain(chain_data) on ledger l: the blocks are rebuilt and
\* "if len(new_chain) > len(self.chain)" is evaluated
SyncChainCompare(t, l) ==
  /\ At(t, "get_chain_data", "returned")
  /\ l # thread_pc[t].node
  /\ LET new_chain == RebuildChain(thread_pc[t].local)
     IN IF SyncAccepts(new_chain, chain[l])
        THEN /\ Goto(t, "sync_chain", "acquire", l, new_chain)
             /\ ret' = NoRet
        ELSE /\ Return(t)
             /\ ret' = RetOf("sync_chain", l, "false")
  /\ access' = Access(t, l, "sync_chain", {"chain"})
  /\ UNCHANGED <<chain, pending_transactions, accepted, next_id, ledger_lock>>
  /\ ThreadFrame

\* "with self.lock: self.chain = new_chain; return True"
SyncChainReplace(t) ==
  /\ At(t, "sync_chain", "acquire")
  /\ LedgerLockFree(thread_pc[t].node)
  /\ chain' = [chain EXCEPT ![thread_pc[t].node] = thread_pc[t].local]
  /\ access' = [Access(t, thread_pc[t].node, "sync_chain", {"chain"})
                  EXCEPT !.locked = TRUE]
  /\ ret' = RetOf("sync_chain", thread_pc[t].node, "true")
  /\ Return(t)
  /\ UNCHANGED <<pending_transactions, accepted, next_id, ledger_lock>>
  /\ ThreadFrame

\* the calls of add_transaction and create_block on one ledger
NextAddAndSeal ==
  \/ \E t \in WorkerThreads, to \in Dests :
       AddTransactionAcquire(t, ValidatorNode, "session_open", to)
  \/ \E t \in WorkerThreads : AddTransactionAppend(t)
  \/ \E t \in WorkerThreads : CreateBlockCheck(t, ValidatorNode)
  \/ \E t \in WorkerThreads : CreateBlockAcquire(t)
  \/ \E t \in WorkerThreads : CreateBlockBuild(t)
  \/ \E t \in WorkerThreads : CreateBlockAppend(t)
  \/ \E t \in WorkerThreads : CreateBlockClear(t)

SpecAddAndSeal == InitValidatorNode /\ [][NextAddAndSeal]_vars

\* every call on the validator's ledger, and the other node's ledger
\* synchronised with it
NextLedgerThreads ==
  \/ NextAddAndSeal
  \/ \E t \in WorkerThreads : ValidatorLoopCheck(t, ValidatorNode)
  \/ \E t \in WorkerThreads : IsChainValidCall(t, ValidatorNode)
  \/ \E t \in WorkerThreads :
       GetTransactionsThread(t, ValidatorNode, ValidatorNode, 0)
  \/ \E t \in WorkerThreads : GetChainLength(t, ValidatorNode)
  \/ \E t \in WorkerThreads : GetChainDataThread(t, ValidatorNode)
  \/ \E t \in WorkerThreads : \E l \in Nodes : SyncChainCompare(t, l)
  \/ \E t \in WorkerThreads : SyncChainReplace(t)

SpecLedgerThreads == InitValidatorNode /\ [][NextLedgerThreads]_vars

\* add_validator and remove_validator hold the lock from their first
\* statement to their last: a call runs when it can take the lock
AddValidatorLocked(l, validator_id) ==
  LedgerLockFree(l) /\ AddValidator(l, validator_id)

RemoveValidatorLocked(l, validator_id) ==
  LedgerLockFree(l) /\ RemoveValidator(l, validator_id)

\* create_block called while the authority set is changed
NextSealAndAuthority ==
  \/ NextAddAndSeal
  \/ AddValidatorLocked(ValidatorNode, ValidatorNode)
  \/ RemoveValidatorLocked(ValidatorNode, ValidatorNode)

SpecSealAndAuthority == InitValidatorNode /\ [][NextSealAndAuthority]_vars

\* ========================================================= session threads
\* The calls of SessionManager that write a session, taken apart statement
\* by statement and run by several threads.  access records whether the
\* thread held SessionManager.lock when it wrote the session.
SessionAccess(t, session_id, op, fields) ==
  [thread |-> t, node |-> session_id, op |-> op, fields |-> fields,
   locked |-> lock = t]

SessionThreadFrame ==
  UNCHANGED <<chain, pending_transactions, validators, is_validator, clock,
              next_id, pollVars, engineVars, ledger_lock, pc>>

\* reconnect_session enters "with self.lock"
ReconnectAcquire(t, session_id) ==
  /\ IdleAt(t)
  /\ LockFree
  /\ lock' = t
  /\ Goto(t, "reconnect_session", "locked", session_id, <<>>)
  /\ access' = SessionAccess(t, session_id, "reconnect_session", {})
  /\ ret' = NoRet
  /\ UNCHANGED <<sessions, stored>>
  /\ SessionThreadFrame

\* "if session_id not in self.sessions: return False", else
\* "session.is_connected = True"
ReconnectSetConnected(t) ==
  /\ At(t, "reconnect_session", "locked")
  /\ LET session_id == thread_pc[t].node
     IN IF session_id \notin DOMAIN sessions
        THEN /\ lock' = "free"
             /\ Return(t)
             /\ access' = SessionAccess(t, session_id, "reconnect_session", {})
             /\ ret' = RetOf("reconnect_session", session_id, "false")
             /\ UNCHANGED sessions
        ELSE /\ sessions[session_id].reconnect_count < MaxReconnect
             /\ sessions' = [sessions EXCEPT ![session_id].is_connected = TRUE]
             /\ Goto(t, "reconnect_session", "connected", session_id, <<>>)
             /\ access' = SessionAccess(t, session_id, "reconnect_session",
                                        {"session"})
             /\ ret' = NoRet
             /\ UNCHANGED lock
  /\ UNCHANGED stored
  /\ SessionThreadFrame

\* "session.reconnect_count += 1"
ReconnectCount(t) ==
  /\ At(t, "reconnect_session", "connected")
  /\ thread_pc[t].node \in DOMAIN sessions
  /\ sessions' = [sessions EXCEPT ![thread_pc[t].node].reconnect_count = @ + 1]
  /\ Goto(t, "reconnect_session", "counted", thread_pc[t].node, <<>>)
  /\ access' = SessionAccess(t, thread_pc[t].node, "reconnect_session",
                             {"session"})
  /\ ret' = NoRet
  /\ UNCHANGED <<stored, lock>>
  /\ SessionThreadFrame

\* "session.last_active = time.time(); self._save_session(session_id);
\* return True"
ReconnectStampAndSave(t) ==
  /\ At(t, "reconnect_session", "counted")
  /\ thread_pc[t].node \in DOMAIN sessions
  /\ sessions' = [sessions EXCEPT ![thread_pc[t].node].last_active = clock]
  /\ stored' = SaveSession(sessions', stored, thread_pc[t].node)
  /\ lock' = "free"
  /\ Return(t)
  /\ access' = SessionAccess(t, thread_pc[t].node, "reconnect_session",
                             {"session"})
  /\ ret' = RetOf("reconnect_session", thread_pc[t].node, "true")
  /\ SessionThreadFrame

\* disconnect_session: "self.sessions[session_id].is_connected = False"
DisconnectSetFlag(t, session_id) ==
  /\ IdleAt(t)
  /\ session_id \in DOMAIN sessions
  /\ sessions' = [sessions EXCEPT ![session_id].is_connected = FALSE]
  /\ Goto(t, "disconnect_session", "save", session_id, <<>>)
  /\ access' = SessionAccess(t, session_id, "disconnect_session", {"session"})
  /\ ret' = NoRet
  /\ UNCHANGED <<stored, lock>>
  /\ SessionThreadFrame

\* disconnect_session: "self._save_session(session_id)"
DisconnectSave(t) ==
  /\ At(t, "disconnect_session", "save")
  /\ stored' = SaveSession(sessions, stored, thread_pc[t].node)
  /\ Return(t)
  /\ access' = SessionAccess(t, thread_pc[t].node, "disconnect_session", {})
  /\ ret' = NoRet
  /\ UNCHANGED <<sessions, lock>>
  /\ SessionThreadFrame

\* update_session_activity
UpdateActivityThread(t, session_id) ==
  /\ IdleAt(t)
  /\ session_id \in DOMAIN sessions
  /\ sessions' = [sessions EXCEPT ![session_id].last_active = clock]
  /\ access' = SessionAccess(t, session_id, "update_session_activity",
                             {"session"})
  /\ ret' = NoRet
  /\ UNCHANGED <<stored, lock, thread_pc>>
  /\ SessionThreadFrame

\* get_session: the caller gets the session object as it is at that moment
GetSession(t, session_id) ==
  /\ IdleAt(t)
  /\ session_id \in DOMAIN sessions
  /\ access' = SessionAccess(t, session_id, "get_session", {})
  /\ ret' = RetOf("get_session", session_id, sessions[session_id])
  /\ UNCHANGED <<sessions, stored, lock, thread_pc>>
  /\ SessionThreadFrame

NextSessionThreads ==
  \/ Tick
  \/ \E s \in Range(SessionIds) : CreateSession("main", s)
  \/ \E t \in WorkerThreads, s \in Range(SessionIds) : ReconnectAcquire(t, s)
  \/ \E t \in WorkerThreads : ReconnectSetConnected(t)
  \/ \E t \in WorkerThreads : ReconnectCount(t)
  \/ \E t \in WorkerThreads : ReconnectStampAndSave(t)
  \/ \E t \in WorkerThreads, s \in Range(SessionIds) : DisconnectSetFlag(t, s)
  \/ \E t \in WorkerThreads : DisconnectSave(t)
  \/ \E t \in WorkerThreads, s \in Range(SessionIds) :
       UpdateActivityThread(t, s)
  \/ \E t \in WorkerThreads, s \in Range(SessionIds) : GetSession(t, s)

SpecSessionThreads == Init /\ [][NextSessionThreads]_vars

\* _save_session as disconnect_session calls it, statement by statement:
\* "if session_id not in self.sessions: return"
SaveSessionCheck(t) ==
  /\ At(t, "disconnect_session", "save")
  /\ IF thread_pc[t].node \in DOMAIN sessions
     THEN Goto(t, "disconnect_session", "read", thread_pc[t].node, <<>>)
     ELSE Return(t)
  /\ access' = SessionAccess(t, thread_pc[t].node, "disconnect_session", {})
  /\ ret' = NoRet
  /\ UNCHANGED <<sessions, stored, lock>>
  /\ SessionThreadFrame

\* "session_state = self.sessions[session_id]"; the KeyError of a session
\* deleted meanwhile is caught and logged
SaveSessionRead(t) ==
  /\ At(t, "disconnect_session", "read")
  /\ IF thread_pc[t].node \in DOMAIN sessions
     THEN Goto(t, "disconnect_session", "write", thread_pc[t].node,
               <<sessions[thread_pc[t].node]>>)
     ELSE Return(t)
  /\ access' = SessionAccess(t, thread_pc[t].node, "disconnect_session", {})
  /\ ret' = NoRet
  /\ UNCHANGED <<sessions, stored, lock>>
  /\ SessionThreadFrame

\* "with open(file_path, 'wb') as f: pickle.dump(session_state, f)"
SaveSessionWrite(t) ==
  /\ At(t, "disconnect_session", "write")
  /\ stored' = Put(stored, thread_pc[t].node, thread_pc[t].local[1])
  /\ Return(t)
  /\ access' = SessionAccess(t, thread_pc[t].node, "disconnect_session", {})
  /\ ret' = NoRet
  /\ UNCHANGED <<sessions, lock>>
  /\ SessionThreadFrame

\* delete_session of sessions without terminals, called while other threads
\* call disconnect_session and update_session_activity and the persistence
\* thread runs
NextDeleteThreads ==
  \/ Tick
  \/ AutoPersist
  \/ \E s \in Range(SessionIds) : CreateSession("main", s)
  \/ \E s \in Range(SessionIds) : DeleteSessionCall("main", s)
  \/ DeleteSessionEnter("main")
  \/ \E t \in WorkerThreads, s \in Range(SessionIds) : DisconnectSetFlag(t, s)
  \/ \E t \in WorkerThreads : SaveSessionCheck(t)
  \/ \E t \in WorkerThreads : SaveSessionRead(t)
  \/ \E t \in WorkerThreads : SaveSessionWrite(t)
  \/ \E t \in WorkerThreads, s \in Range(SessionIds) :
       UpdateActivityThread(t, s)

SpecDeleteThreads == Init /\ [][NextDeleteThreads]_vars

\* ========================================================= chain validation
\* is_chain_valid on the chains a ledger can hold: those it seals itself,
\* with validators added and removed and transactions retrieved, and those
\* it adopts from a peer, whose chain data sync_chain takes as it comes.
\* A peer's chain data: the ledger's own blocks and one block more, linked
\* or not, sealed under any validator name.
PeerBlock(c, previous_hash, validator) ==
  ToDict(Block(Len(c), clock, [kind |-> "transactions", transactions |-> <<>>],
               previous_hash, validator))

PeerChains(c) ==
  {Append(GetChainData(c), PeerBlock(c, previous_hash, validator)) :
     previous_hash \in {Last(c).hash, ZeroHash},
     validator \in Nodes \cup {GenesisValidator}}

NextChainCheck ==
  \/ AddValidator(ValidatorNode, ValidatorNode)
  \/ RemoveValidator(ValidatorNode, ValidatorNode)
  \/ AddTransaction(ValidatorNode, "session_open", ValidatorNode)
  \/ CreateBlock(ValidatorNode)
  \/ GetTransactionsCall(ValidatorNode, ValidatorNode, 0)
  \/ \E chain_data \in PeerChains(chain[ValidatorNode]) :
       Len(chain_data) <= MaxChain /\ SyncChainData(ValidatorNode, chain_data)
  \/ \E t \in WorkerThreads : IsChainValidCall(t, ValidatorNode)

SpecChainCheck == InitValidatorNode /\ [][NextChainCheck]_vars

\* ============================================================ sync and poll
\* A polling node that adopts the chains of a peer validator.  The peer
\* seals its own blocks on the common genesis block, one transaction a
\* block, for the polling node or for itself; its chains may be one block
\* longer than any chain of the other specifications, so that a chain of
\* full length can still be replaced.
PeerNode == "target-node"
MaxPeerChain == MaxChain + 1

PeerTransaction(message_id, to) ==
  [message_id |-> message_id, type |-> "session_open", from |-> PeerNode,
   to |-> to, timestamp |-> 0, block_index |-> NoBlockIndex]

PeerPool ==
  {PeerTransaction(k, ValidatorNode) : k \in 1..MaxTx}
    \cup {PeerTransaction(0, PeerNode)}

\* create_block on the peer's ledger, once for each transaction of txs
RECURSIVE PeerSeal(_, _)
PeerSeal(c, txs) ==
  IF txs = <<>> THEN c
  ELSE PeerSeal(Append(c, Block(Len(c), 0,
                                [kind |-> "transactions",
                                 transactions |-> <<Head(txs)>>],
                                Last(c).hash, PeerNode)),
                Tail(txs))

\* get_chain_data of the peer's ledgers; a transaction for the polling node
\* is sealed once
PeerForks ==
  {GetChainData(PeerSeal(<<GenesisBlock(0)>>, txs)) :
     txs \in {s \in UNION {[1..n -> PeerPool] : n \in 1..(MaxPeerChain - 1)} :
               \A i, j \in DOMAIN s :
                 (i # j /\ s[i].to = ValidatorNode) => s[i] # s[j]}}

NextSyncAndPoll ==
  \/ \E chain_data \in PeerForks : SyncChainData(ValidatorNode, chain_data)
  \/ ListenBlockchain(ValidatorNode)

SpecSyncAndPoll ==
  /\ InitValidatorNode
  /\ [][NextSyncAndPoll]_vars
  /\ WF_vars(ListenBlockchain(ValidatorNode))

\* ====================================================== ledger properties

\* C1: create_block on a ledger whose node is not flagged as validator, or
\* whose node id is not in the authority set, returns no block and leaves
\* the chain and the pending pool as they were.
C1_UnauthorizedCreateBlockFails ==
  [][\A l \in Nodes :
       (CreateBlock(l) /\ ~(is_validator[l] /\ l \in validators[l]))
         => /\ ret'.val = "none"
            /\ chain' = chain
            /\ pending_transactions' = pending_transactions]_vars

\* C1 witness: create_block has just returned no block on a node that is in
\* the authority set but not flagged as validator, with a non-empty pool.
C1_Witness ==
  \E l \in Nodes :
    /\ ret = [op |-> "create_block", node |-> l, val |-> "none"]
    /\ ~is_validator[l]
    /\ l \in validators[l]
    /\ pending_transactions[l] # <<>>

\* C2 (as claimed): in every reachable state every block after the first is
\* linked to its predecessor's hash and was sealed by a member of the
\* current authority set.
C2_ChainLinkedAndAuthorized ==
  \A l \in Nodes : \A i \in 2..Len(chain[l]) :
    /\ chain[l][i].previous_hash = chain[l][i - 1].hash
    /\ chain[l][i].validator \in validators[l]

\* every transaction of a chain, in block order then insertion order
RECURSIVE AllTransactions(_, _)
AllTransactions(c, pos) ==
  IF pos > Len(c) THEN <<>>
  ELSE (IF c[pos].data.kind = "transactions" THEN c[pos].data.transactions
        ELSE <<>>) \o AllTransactions(c, pos + 1)

MessageIds(txs) == [j \in 1..Len(txs) |-> txs[j].message_id]

\* C3 (as claimed): get_transactions_for_node(X, 0) returns exactly the
\* transactions addressed to X or to the broadcast wildcard, in block order
\* then insertion order.
C3_DeliveryIncludesBroadcast ==
  \A l \in Nodes : \A x \in Nodes :
    MessageIds(GetTransactionsForNode(chain[l], x, 0)) =
      MessageIds(SelectSeq(AllTransactions(chain[l], 1),
                           LAMBDA tx : tx.to \in {x, Broadcast}))

OtherKind(k) == IF k = "transactions" THEN "message" ELSE "transactions"

DataAlterations(d) ==
  {[d EXCEPT !.kind = OtherKind(d.kind)]}
    \cup {[d EXCEPT !.transactions = SubSeq(@, 1, Len(@) - 1)] :
            z \in IF d.transactions = <<>> THEN {} ELSE {0}}
    \cup {[d EXCEPT !.transactions[j].to = t] :
            j \in 1..Len(d.transactions), t \in Dests}
    \cup {[d EXCEPT !.transactions[j].block_index = k] :
            j \in 1..Len(d.transactions), k \in 0..MaxChain}

Alterations(c, i) ==
  ({[c[i] EXCEPT !.index = v] : v \in 0..MaxChain}
     \cup {[c[i] EXCEPT !.timestamp = v] : v \in 0..(MaxTime + 1)}
     \cup {[c[i] EXCEPT !.data = v] : v \in DataAlterations(c[i].data)}
     \cup {[c[i] EXCEPT !.previous_hash = v] :
             v \in {ZeroHash} \cup {c[k].hash : k \in 1..Len(c)}}
     \cup {[c[i] EXCEPT !.validator = v] : v \in Nodes \cup {GenesisValidator}})
  \ {c[i]}

Altered(c, i, b) == [c EXCEPT ![i] = b]

\* C5 (as claimed): on a valid chain, altering one recorded field of any
\* block, stored hashes untouched, makes is_chain_valid return false.
C5_AnyAlterationDetected ==
  \A l \in Nodes :
    IsChainValid(chain[l], validators[l]) =>
      \A i \in 1..Len(chain[l]) : \A b \in Alterations(chain[l], i) :
        ~IsChainValid(Altered(chain[l], i, b), validators[l])

\* C5 (amended): on a valid chain, altering one recorded field of any block
\* after the genesis block, stored hashes untouched, makes is_chain_valid
\* return false.
C5_AlterationAfterGenesisDetected ==
  \A l \in Nodes :
    IsChainValid(chain[l], validators[l]) =>
      \A i \in 2..Len(chain[l]) : \A b \in Alterations(chain[l], i) :
        ~IsChainValid(Altered(chain[l], i, b), validators[l])

\* C5 witness: a valid chain of three blocks whose middle block has an
\* alteration that is_chain_valid rejects.
C5_Witness ==
  \E l \in Nodes :
    /\ Len(chain[l]) >= 3
    /\ IsChainValid(chain[l], validators[l])
    /\ \E b \in Alterations(chain[l], 2) :
         ~IsChainValid(Altered(chain[l], 2, b), validators[l])

\* ====================================================== poller properties

\* a transaction the poller of node l hands to registered handlers
Deliverable(l, tx) == tx.to = l /\ HasHandlers(l, tx.type)

Dispatched(l, tx) == dispatch_count[l][tx.message_id] > 0

Position(l, tx) ==
  CHOOSE k \in 1..Len(dispatch_order[l]) :
    dispatch_order[l][k] = tx.message_id

\* C6: of two transactions added to the pool for the same destination, the
\* later one is dispatched to the destination's handlers only after the
\* earlier one has been.
C6_DispatchPreservesOrder ==
  \A i \in 1..Len(accepted[ValidatorNode]) :
    \A j \in (i + 1)..Len(accepted[ValidatorNode]) :
      LET a == accepted[ValidatorNode][i]
          b == accepted[ValidatorNode][j]
      IN (Deliverable(ValidatorNode, a) /\ Deliverable(ValidatorNode, b)
            /\ Dispatched(ValidatorNode, b))
           => /\ Dispatched(ValidatorNode, a)
              /\ Position(ValidatorNode, a) < Position(ValidatorNode, b)

\* C6 witness: two transactions for the node, sealed in different blocks,
\* have both been dispatched.
C6_Witness ==
  /\ Len(accepted[ValidatorNode]) >= 2
  /\ Len(chain[ValidatorNode]) >= 3
  /\ \A k \in 1..2 :
       /\ Deliverable(ValidatorNode, accepted[ValidatorNode][k])
       /\ Dispatched(ValidatorNode, accepted[ValidatorNode][k])

\* C7: every accepted transaction addressed to the node is eventually
\* dispatched to the handlers registered for its type, the validator loop
\* and the poller being scheduled again and again.
C7_EventuallyDispatched ==
  \A k \in 1..MaxTx :
    (/\ Len(accepted[ValidatorNode]) >= k
     /\ Deliverable(ValidatorNode, accepted[ValidatorNode][k]))
      ~> (dispatch_count[ValidatorNode][k] > 0)

\* C7 witness: an accepted transaction for the node has reached its handler.
C7_Witness ==
  \E k \in 1..Len(accepted[ValidatorNode]) :
    /\ Deliverable(ValidatorNode, accepted[ValidatorNode][k])
    /\ dispatch_count[ValidatorNode][accepted[ValidatorNode][k].message_id] > 0
    /\ pending_transactions[ValidatorNode] = <<>>

\* ===================================================== session properties

Existing(s) == s \in DOMAIN sessions

\* C8: a session starts connected with reconnect_count 0; a successful
\* reconnect_session sets is_connected and adds exactly 1 to reconnect_count;
\* no other operation on the session changes reconnect_count.
C8_ReconnectCountsReconnects ==
  [][\A s \in Range(SessionIds) :
       /\ (\E t \in Threads : CreateSession(t, s))
            => /\ sessions'[s].is_connected
               /\ sessions'[s].reconnect_count = 0
       /\ (s \in DOMAIN sessions /\ s \in DOMAIN sessions'
             /\ ~(\E t \in Threads : CreateSession(t, s)))
            => IF \E t \in Threads : ReconnectSession(t, s)
               THEN /\ sessions'[s].is_connected
                    /\ sessions'[s].reconnect_count =
                         sessions[s].reconnect_count + 1
               ELSE sessions'[s].reconnect_count =
                      sessions[s].reconnect_count]_vars

\* C8 witness: a session has just been reconnected for the first time and
\* the reconnection has been persisted.
C8_Witness ==
  \E s \in Range(SessionIds) :
    /\ ret = [op |-> "reconnect_session", node |-> s, val |-> "true"]
    /\ Existing(s)
    /\ sessions[s].reconnect_count = 1
    /\ sessions[s].is_connected
    /\ s \in DOMAIN stored
    /\ stored[s] = sessions[s]

\* a thread waiting for the lock it holds itself
Stuck(t) ==
  /\ pc[t] # <<>>
  /\ Head(pc[t]).state = "acquire"
  /\ lock = t

\* C9 (as claimed): delete_session on a session that owns terminals
\* terminates: the call never waits for a lock that will not be released.
C9_DeleteSessionTerminates ==
  \A t \in Threads :
    (pc[t] # <<>> /\ Last(pc[t]).op = "delete_session") => ~Stuck(t)

Selected(t, s) ==
  \E k \in 1..Len(pc[t]) :
    \/ (pc[t][k].op = "delete_session" /\ pc[t][k].sid = s)
    \/ (pc[t][k].op = "cleanup_old_sessions" /\ s \in Range(pc[t][k].todo))

\* C10: cleanup_old_sessions neither selects for deletion nor removes a
\* session that is connected, or one whose idle time is not greater than
\* max_age.
C10_CleanupSparesConnectedAndRecent ==
  [][\A t \in Threads : \A h \in AgeChoices :
       CleanupOldSessions(t, h) =>
         \A s \in DOMAIN sessions :
           (sessions[s].is_connected
              \/ clock - sessions[s].last_active <= h * SecondsPerHour)
             => /\ s \in DOMAIN sessions'
                /\ ~Selected(t, s)']_vars

\* C10 witness: a cleanup is under way that selected a session and passed
\* over a connected session idle for an hour.
C10_Witness ==
  \E t \in Threads :
    /\ pc[t] # <<>>
    /\ Last(pc[t]).op = "cleanup_old_sessions"
    /\ \E s \in DOMAIN sessions :
         /\ sessions[s].is_connected
         /\ clock - sessions[s].last_active >= SecondsPerHour
         /\ ~Selected(t, s)

\* C11 (as claimed): cleanup_old_sessions with a session to delete
\* terminates: the call never waits for a lock that will not be released.
C11_CleanupTerminates ==
  \A t \in Threads :
    (pc[t] # <<>> /\ Last(pc[t]).op = "cleanup_old_sessions") => ~Stuck(t)

\* C12: create_terminal and reconnect_session on a session id that is not in
\* the session mapping return a failure indicator and leave the mapping and
\* the persisted store unchanged.
C12_MissingSessionFails ==
  [][\A t \in Threads : \A s \in Range(SessionIds) :
       /\ (ReconnectSession(t, s) /\ s \notin DOMAIN sessions)
            => /\ ret'.val = "false"
               /\ sessions' = sessions
               /\ stored' = stored
       /\ \A x \in Range(TerminalIds) :
            (CreateTerminal(t, s, x) /\ s \notin DOMAIN sessions)
              => /\ ret'.val = "none"
                 /\ sessions' = sessions
                 /\ stored' = stored]_vars

\* C12 witness: create_terminal has just failed for an absent session while
\* another session exists and is persisted.
C12_Witness ==
  \E s \in Range(SessionIds) :
    /\ ret = [op |-> "create_terminal", node |-> s, val |-> "none"]
    /\ s \notin DOMAIN sessions
    /\ sessions # <<>>
    /\ stored = sessions

\* C13 (as claimed): when create_session, create_terminal, close_terminal,
\* disconnect_session, reconnect_session or update_session_activity returns,
\* the persisted record of the session equals its in-memory state.
C13_MutatingCallsPersist ==
  [][\A t \in Threads : \A s \in Range(SessionIds) :
       (\/ CreateSession(t, s)
        \/ ReconnectSession(t, s)
        \/ DisconnectSession(t, s)
        \/ UpdateSessionActivity(t, s)
        \/ \E x \in Range(TerminalIds) : CreateTerminal(t, s, x)
        \/ (CloseTerminalEnter(t) /\ Head(pc[t]).sid = s /\ pc'[t] = <<>>))
         => (s \in DOMAIN sessions'
               => /\ s \in DOMAIN stored'
                  /\ stored'[s] = sessions'[s])]_vars

\* ==================================================== transfer properties

\* C14: for a file of size S, prepare_upload produces a plan with
\* ceil(S / CHUNK_SIZE) chunks, indexed 0..total_chunks-1, each of size
\* 1..CHUNK_SIZE and only the last one possibly shorter, the sizes summing
\* to S, every chunk unverified and the status pending.
C14_PlanCoversFile ==
  [][\A x \in TransferIds :
       (/\ SourcePath \in DOMAIN files
        /\ ret'.op = "prepare_upload"
        /\ PrepareUpload(SourcePath, x, SessionIds[1]))
         => LET info == transfers'[x]
                S == Len(files[SourcePath])
                n == info.total_chunks
            IN /\ n * CHUNK_SIZE >= S
               /\ (n - 1) * CHUNK_SIZE < S
               /\ DOMAIN info.chunks = 0..(n - 1)
               /\ \A i \in 0..(n - 1) :
                    /\ info.chunks[i].chunk_index = i
                    /\ info.chunks[i].chunk_size \in 1..CHUNK_SIZE
                    /\ (i < n - 1 => info.chunks[i].chunk_size = CHUNK_SIZE)
                    /\ ~info.chunks[i].is_verified
               /\ SumTo([k \in 1..n |-> info.chunks[k - 1].chunk_size], n) = S
               /\ info.file_size = S
               /\ info.status = "pending"]_vars

\* C14 witness: prepare_upload has just planned a file whose last chunk is
\* shorter than the chunks before it.
C14_Witness ==
  \E x \in DOMAIN transfers :
    /\ ret = RetOf("prepare_upload", x, "transfer_info")
    /\ transfers[x].total_chunks >= 2
    /\ transfers[x].chunks[transfers[x].total_chunks - 1].chunk_size < CHUNK_SIZE

\* C15 (as claimed): once every chunk of a planned transfer has been
\* delivered through receive_chunk, each once and in any order, the output
\* file equals the source file and its hash the recorded file_hash.
C15_AnyOrderRebuildsFile ==
  \A x \in DOMAIN transfers :
    (transfers[x].total_chunks > 0 /\ IsComplete(transfers[x]))
      => /\ OutputPath \in DOMAIN files
         /\ files[OutputPath] = files[SourcePath]
         /\ CalculateFileHash(files, OutputPath) = transfers[x].file_hash

\* C16: receive_chunk given bytes whose hash differs from the expected hash
\* returns failure, writes nothing and leaves the chunk's verified flag and
\* the transfer's status as they were.
C16_MismatchWritesNothing ==
  [][ret'.op = "receive_chunk" =>
       \A x \in DOMAIN transfers : \A i \in DOMAIN transfers[x].chunks :
         LET m == Tampered(SentChunk(x, i))
         IN (/\ <<"sha256", B64Decode(m.chunk_data)>> # m.chunk_hash
             /\ ReceiveChunk(x, m.chunk_index, m.chunk_data, m.chunk_hash,
                             OutputPath))
              => /\ ret'.val = "false"
                 /\ files' = files
                 /\ transfers' = transfers]_vars

\* C16 witness: receive_chunk has just refused a chunk of a transfer that
\* already has an output file and a chunk still to verify.
C16_Witness ==
  \E x \in DOMAIN transfers :
    /\ ret = RetOf("receive_chunk", x, "false")
    /\ OutputPath \in DOMAIN files
    /\ ~IsComplete(transfers[x])

\* a step that verifies the last unverified chunk of transfer x
LastChunkVerified(x) ==
  /\ x \in DOMAIN transfers
  /\ x \in DOMAIN transfers'
  /\ transfers'[x].total_chunks > 0
  /\ ~IsComplete(transfers[x])
  /\ IsComplete(transfers'[x])

IsCompletionMessage(tx, x) ==
  /\ tx.type = "file_upload_complete"
  /\ tx.to = "target-node"
  /\ tx.from = TransferNode
  /\ tx.data.transfer_id = x

\* C17 (as claimed): when the last unverified chunk of a transfer becomes
\* verified, the status becomes completed, the completion time is recorded
\* and a completion message to the counterpart node is added to the pool.
C17_CompletionAlwaysNotifies ==
  [][\A x \in TransferIds :
       LastChunkVerified(x)
         => /\ transfers'[x].status = "completed"
            /\ transfers'[x].completed_at = clock
            /\ Len(pending_transactions'[TransferNode]) =
                 Len(pending_transactions[TransferNode]) + 1
            /\ IsCompletionMessage(Last(pending_transactions'[TransferNode]), x)]_vars

\* C17 (amended): when the last unverified chunk of a transfer becomes
\* verified, the status becomes completed and the completion time is
\* recorded; a completion message to the counterpart node is added to the
\* pool if the transfer's session is registered with the protocol, and no
\* message is added otherwise.
C17_CompletionNotifiesKnownSession ==
  [][\A x \in TransferIds :
       LastChunkVerified(x)
         => /\ transfers'[x].status = "completed"
            /\ transfers'[x].completed_at = clock
            /\ IF transfers[x].session_id \in DOMAIN protocol_sessions
               THEN /\ Len(pending_transactions'[TransferNode]) =
                         Len(pending_transactions[TransferNode]) + 1
                    /\ IsCompletionMessage(
                         Last(pending_transactions'[TransferNode]), x)
               ELSE pending_transactions' = pending_transactions]_vars

\* C17 witness: a transfer of two chunks is completed and the completion
\* message for the target node is the newest entry of the pool.
C17_Witness ==
  \E x \in DOMAIN transfers :
    /\ transfers[x].total_chunks >= 2
    /\ transfers[x].status = "completed"
    /\ transfers[x].completed_at # NoTime
    /\ pending_transactions[TransferNode] # <<>>
    /\ IsCompletionMessage(Last(pending_transactions[TransferNode]), x)

\* C18 (as claimed): in every reachable state a transfer's status is
\* completed if and only if every chunk of its plan is verified.
C18_CompletedIffAllVerified ==
  \A x \in DOMAIN transfers :
    (transfers[x].status = "completed") <=> IsComplete(transfers[x])

\* C19: verify_file returns true exactly when the recomputed hash of the
\* file equals the recorded file_hash; on a mismatch it returns false and
\* the status becomes failed; for an unknown transfer id it returns false
\* and changes no transfer.
C19_VerifyFileComparesHash ==
  [][\A x \in TransferIds \cup {UnknownTransferId} : \A p \in Paths :
       (ret'.op = "verify_file" /\ VerifyFile(x, p))
         => IF x \notin DOMAIN transfers
            THEN ret'.val = "false" /\ transfers' = transfers
            ELSE IF /\ p \in DOMAIN files
                    /\ transfers[x].file_hash = <<"sha256", files[p]>>
                 THEN ret'.val = "true"
                 ELSE /\ ret'.val = "false"
                      /\ transfers'[x].status = "failed"]_vars

\* C19 witness: verify_file has just failed a transfer whose output file
\* differs from the source file.
C19_Witness ==
  \E x \in DOMAIN transfers :
    /\ ret = RetOf("verify_file", x, "false")
    /\ transfers[x].status = "failed"
    /\ OutputPath \in DOMAIN files
    /\ files[OutputPath] # files[SourcePath]

\* ==================================================== terminal properties

\* C20: a command executed in one terminal leaves the working directory,
\* the environment and the command history of every other terminal as they
\* were; and of two terminals whose latest commands are cd /a and cd /b, the
\* first is in /a and the second in /b.
C20_TerminalsAreIsolated ==
  [][/\ \A t \in Range(TerminalIds) : \A c \in Commands :
          (ret'.op = "execute_command" /\ TmExecuteCommand(t, c))
            => \A u \in DOMAIN terminals \ {t} :
                 /\ u \in DOMAIN terminals'
                 /\ terminals'[u] = terminals[u]
     /\ \A t \in DOMAIN terminals' : \A u \in DOMAIN terminals' \ {t} :
          (/\ terminals'[t].command_history # <<>>
           /\ terminals'[u].command_history # <<>>
           /\ Last(terminals'[t].command_history) = CdA
           /\ Last(terminals'[u].command_history) = CdB)
            => /\ terminals'[t].current_dir = DirA
               /\ terminals'[u].current_dir = DirB]_vars

\* C20 witness: two terminals, one in /a and one in /b after their cd
\* commands, the environment variable set in the first only.
C20_Witness ==
  \E t \in DOMAIN terminals : \E u \in DOMAIN terminals \ {t} :
    /\ terminals[t].current_dir = DirA
    /\ terminals[u].current_dir = DirB
    /\ <<"X">> \in DOMAIN terminals[t].env
    /\ <<"X">> \notin DOMAIN terminals[u].env
    /\ terminals[u].command_history = <<CdB>>

\* a cd command and the directory it names: the path after "cd", the home
\* directory when there is none
IsCd(c) ==
  LET s == Strip(c, {" "})
  IN s = <<"c", "d">> \/ StartsWith(s, <<"c", "d", " ">>)

CdTarget(c) ==
  LET s == Strip(c, {" "})
      path == Strip(SubSeq(s, 3, Len(s)), {" "})
  IN IF path = <<>> \/ path = <<"~">> THEN Home ELSE path

\* C21 (as claimed): a cd command whose target is not an existing directory
\* returns a non-zero exit code and leaves the terminal's current directory
\* unchanged; a cd command whose target exists returns exit code 0 and sets
\* the current directory to the target, which the reply reports.
C21_CdChangesDirectory ==
  [][\A t \in Range(TerminalIds) : \A c \in Commands :
       (/\ ret'.op = "execute_command"
        /\ t \in DOMAIN terminals
        /\ IsCd(c)
        /\ TmExecuteCommand(t, c))
         => IF CdTarget(c) \in Directories
            THEN /\ ret'.val.exit_code = 0
                 /\ terminals'[t].current_dir = CdTarget(c)
                 /\ ret'.val.cwd = CdTarget(c)
            ELSE /\ ret'.val.exit_code # 0
                 /\ terminals'[t].current_dir = terminals[t].current_dir]_vars

\* ======================================================= thread properties

\* C22 (as claimed): every step that reads or writes a ledger's chain or
\* pending pool is taken by a thread that holds that ledger's lock.
C22_AccessesUnderLock == access.fields # {} => access.locked

\* where an accepted transaction is held
InPool(l, tx) ==
  \E j \in 1..Len(pending_transactions[l]) :
    pending_transactions[l][j].message_id = tx.message_id

BlocksHolding(l, tx) ==
  {i \in 1..Len(chain[l]) :
     /\ HasTransactions(chain[l][i])
     /\ \E j \in 1..Len(chain[l][i].data.transactions) :
          chain[l][i].data.transactions[j].message_id = tx.message_id}

\* C23 (as claimed): under any interleaving of add_transaction and
\* create_block calls on one ledger, every accepted transaction is at every
\* moment either in the pending pool or in exactly one block, never in
\* both, never in two blocks and never lost.
C23_PoolOrOneBlockAlways ==
  \A k \in 1..Len(accepted[ValidatorNode]) :
    LET tx == accepted[ValidatorNode][k]
    IN \/ InPool(ValidatorNode, tx) /\ BlocksHolding(ValidatorNode, tx) = {}
       \/ /\ ~InPool(ValidatorNode, tx)
          /\ Cardinality(BlocksHolding(ValidatorNode, tx)) = 1

\* C23 (amended): under any interleaving of add_transaction and
\* create_block calls on one ledger, every accepted transaction is at every
\* moment in the pending pool or in a block, never in two blocks and never
\* lost; it is in both only while a create_block call that holds the
\* ledger's lock has appended its block and not yet cleared the pool.
C23_PoolOrOneBlockOutsideLock ==
  \A k \in 1..Len(accepted[ValidatorNode]) :
    LET tx == accepted[ValidatorNode][k]
        blocks == BlocksHolding(ValidatorNode, tx)
    IN /\ Cardinality(blocks) <= 1
       /\ InPool(ValidatorNode, tx) \/ blocks # {}
       /\ (InPool(ValidatorNode, tx) /\ blocks # {})
            => \E t \in WorkerThreads :
                 /\ At(t, "create_block", "appended")
                 /\ ledger_lock[ValidatorNode] = t

\* C23 witness: one accepted transaction is sealed in a block, and a
\* create_block call waits for the lock that an add_transaction call holds.
C23_Witness ==
  \E t \in WorkerThreads : \E u \in WorkerThreads \ {t} :
    /\ At(t, "create_block", "acquire")
    /\ At(u, "add_transaction", "locked")
    /\ ledger_lock[ValidatorNode] = u
    /\ accepted[ValidatorNode] # <<>>
    /\ BlocksHolding(ValidatorNode, accepted[ValidatorNode][1]) # {}

\* ====================================================== handler properties

\* what a poll of node l retrieves, and the handlers registered for a type
Retrieved(l) == GetTransactionsForNode(chain[l], l, last_processed_block[l])

Registered(l, ty) == IF ty \in MessageType THEN message_handlers[l][ty] ELSE <<>>

Called(log, handler, tx) ==
  \E c \in 1..Len(log) :
    log[c] = [handler |-> handler, message_id |-> tx.message_id]

\* the handlers called with transaction tx, in the order of their calls
HandlerCalls(log, tx) ==
  LET calls == SelectSeq(log, LAMBDA c : c.message_id = tx.message_id)
  IN [j \in 1..Len(calls) |-> calls[j].handler]

\* C24 (as claimed): when a handler registered for the type of a retrieved
\* transaction fails, every handler registered for that type is still
\* invoked with the transaction, and the first handler of every later
\* transaction of the poll is invoked as well.
C24_FailingHandlerIsIsolated ==
  [][ListenBlockchain(ValidatorNode) =>
       \A k \in 1..Len(Retrieved(ValidatorNode)) :
         LET tx == Retrieved(ValidatorNode)[k]
             hs == Registered(ValidatorNode, tx.type)
         IN (\E i \in 1..Len(hs) : Raises(hs[i]))
              => /\ \A j \in 1..Len(hs) :
                      Called(invoked'[ValidatorNode], hs[j], tx)
                 /\ \A n \in (k + 1)..Len(Retrieved(ValidatorNode)) :
                      LET later == Retrieved(ValidatorNode)[n]
                          ls == Registered(ValidatorNode, later.type)
                      IN ls # <<>>
                           => Called(invoked'[ValidatorNode], ls[1], later)]_vars

\* C25: a retrieved transaction whose type is no message type invokes no
\* handler; the transactions retrieved after it in the same poll are
\* dispatched to the handlers of their types, and the poll moves the last
\* processed block past it.
C25_UnknownTypeIsSkipped ==
  [][ListenBlockchain(ValidatorNode) =>
       \A k \in 1..Len(Retrieved(ValidatorNode)) :
         LET tx == Retrieved(ValidatorNode)[k]
         IN tx.type \notin MessageType
              => /\ HandlerCalls(invoked'[ValidatorNode], tx) = <<>>
                 /\ last_processed_block'[ValidatorNode] >= tx.block_index
                 /\ \A n \in (k + 1)..Len(Retrieved(ValidatorNode)) :
                      LET later == Retrieved(ValidatorNode)[n]
                      IN (later.type \in MessageType
                            /\ message_handlers[ValidatorNode][later.type] # <<>>)
                           => Called(invoked'[ValidatorNode],
                                     message_handlers[ValidatorNode][later.type][1],
                                     later)]_vars

\* C25 witness: the latest poll retrieved a transaction of an unknown type
\* and, after it, one of a known type; it called a handler with the second
\* and none with the first, while a handler for responses is registered.
C25_Witness ==
  /\ Len(accepted[ValidatorNode]) = 2
  /\ accepted[ValidatorNode][1].type \notin MessageType
  /\ accepted[ValidatorNode][2].type \in MessageType
  /\ message_handlers[ValidatorNode]["response"] # <<>>
  /\ invoked[ValidatorNode] # <<>>
  /\ \A c \in 1..Len(invoked[ValidatorNode]) :
       invoked[ValidatorNode][c].message_id = 2
  /\ last_processed_block[ValidatorNode] >= 1
  /\ Len(chain[ValidatorNode]) = 2

\* C26 (as claimed): when a transaction is dispatched, the handlers
\* registered for its type are all invoked with it, in the order of their
\* registration, and no other handler is.
C26_AllHandlersInRegistrationOrder ==
  [][ListenBlockchain(ValidatorNode) =>
       \A k \in 1..Len(Retrieved(ValidatorNode)) :
         LET tx == Retrieved(ValidatorNode)[k]
         IN HandlerCalls(invoked'[ValidatorNode], tx)
              = Registered(ValidatorNode, tx.type)]_vars

\* C27 (as claimed): get_transactions_for_node leaves the chain as it was:
\* the stored transactions are unchanged, every block whose stored hash
\* equalled its recomputed hash still has that property, and is_chain_valid
\* gives the same result after the retrieval as before.
C27_RetrievalLeavesLedger ==
  [][\A l \in Nodes :
       GetTransactionsCall(l, l, 0)
         => /\ chain'[l] = chain[l]
            /\ \A i \in 1..Len(chain[l]) :
                 chain[l][i].hash = CalculateHash(chain[l][i])
                   => chain'[l][i].hash = CalculateHash(chain'[l][i])
            /\ IsChainValid(chain'[l], validators[l])
                 = IsChainValid(chain[l], validators[l])]_vars

\* a thread in the middle of the writes of reconnect_session
MidReconnect(u, s) ==
  /\ thread_pc[u].op = "reconnect_session"
  /\ thread_pc[u].at \in {"connected", "counted"}
  /\ thread_pc[u].node = s

\* C28 (as claimed): every step that writes a session is taken by a thread
\* that holds the Session Manager's lock, and no reader gets a session that
\* another thread has updated only in part.
C28_SessionWritesUnderLock ==
  /\ "session" \in access.fields => access.locked
  /\ ret.op = "get_session"
       => \A u \in WorkerThreads : ~MidReconnect(u, ret.node)

\* ====================================================== progress properties

\* the chunks of transfer x that a step changes from unverified to verified
NewlyVerified(x) ==
  {i \in DOMAIN transfers[x].chunks :
     /\ ~transfers[x].chunks[i].is_verified
     /\ transfers'[x].chunks[i].is_verified}

\* the calls of progress callbacks a step adds
NewCalls ==
  SubSeq(progress_calls', Len(progress_calls) + 1, Len(progress_calls'))

\* C29 (as claimed): a call of verify_chunk or receive_chunk on a transfer
\* with a registered progress callback invokes the callback once for each
\* chunk it changes from unverified to verified, with the verified chunks
\* over the total chunks (read as the percentage get_progress returns), and
\* does not invoke it on a hash mismatch or for a chunk verified before.
C29_CallbackOncePerNewChunk ==
  [][\A x \in TransferIds :
       (/\ ret'.op \in {"verify_chunk", "receive_chunk"}
        /\ x \in progress_callbacks
        /\ x \in DOMAIN transfers)
         => /\ Len(NewCalls) = Cardinality(NewlyVerified(x))
            /\ \A c \in 1..Len(NewCalls) :
                 /\ NewCalls[c].transfer_id = x
                 /\ NewCalls[c].progress[1] * transfers'[x].total_chunks
                      = 100 * VerifiedChunks(transfers'[x])
                          * NewCalls[c].progress[2]]_vars

\* ============================================= chain validation properties

\* C30 (as claimed): is_chain_valid returns true exactly when every block
\* after the first has a stored hash equal to its recomputed hash, a
\* previous_hash equal to its predecessor's hash and a validator that is a
\* member of the authority set; it changes neither the chain nor the pool.
C30_ValidIffHashLinkAndAuthority ==
  [][\A t \in WorkerThreads : \A l \in Nodes :
       (ret'.op = "is_chain_valid" /\ IsChainValidCall(t, l))
         => /\ ret'.val = "true"
                 <=> \A i \in 2..Len(chain[l]) :
                       /\ chain[l][i].hash = CalculateHash(chain[l][i])
                       /\ chain[l][i].previous_hash = chain[l][i - 1].hash
                       /\ chain[l][i].validator \in validators[l]
            /\ chain' = chain
            /\ pending_transactions' = pending_transactions]_vars

\* C30 (amended): is_chain_valid returns true exactly when every block
\* after the first has a stored hash equal to its recomputed hash, a
\* previous_hash equal to its predecessor's hash and a validator that is a
\* member of the authority set or bears the name 'genesis'; it changes
\* neither the chain nor the pool.
C30_ValidIffHashLinkAndAuthorityOrGenesis ==
  [][\A t \in WorkerThreads : \A l \in Nodes :
       (ret'.op = "is_chain_valid" /\ IsChainValidCall(t, l))
         => /\ ret'.val = "true"
                 <=> \A i \in 2..Len(chain[l]) :
                       /\ chain[l][i].hash = CalculateHash(chain[l][i])
                       /\ chain[l][i].previous_hash = chain[l][i - 1].hash
                       /\ chain[l][i].validator
                            \in validators[l] \cup {GenesisValidator}
            /\ chain' = chain
            /\ pending_transactions' = pending_transactions]_vars

\* C30 witness: is_chain_valid has just returned true on a chain of three
\* blocks, one sealed by the node and one adopted from a peer under the
\* name 'genesis', with a transaction waiting in the pool.
C30_Witness ==
  /\ ret = RetOf("is_chain_valid", ValidatorNode, "true")
  /\ Len(chain[ValidatorNode]) = 3
  /\ \E i \in 2..3 : chain[ValidatorNode][i].validator = ValidatorNode
  /\ \E i \in 2..3 : chain[ValidatorNode][i].validator = GenesisValidator
  /\ pending_transactions[ValidatorNode] # <<>>

\* ============================================== properties of the last part

\* a chain c is kept, block for block, as the beginning of the chain d
IsPrefix(c, d) ==
  /\ Len(c) <= Len(d)
  /\ \A i \in 1..Len(c) : d[i] = c[i]

\* C31 (as claimed): a step that is no successful sync_chain on a ledger
\* leaves the ledger's chain a prefix of the chain after the step, with
\* index, timestamp, transactions, previous_hash, validator and hash of every
\* block it held unchanged.
C31_ChainAppendOnly ==
  [][\A l \in Nodes :
       ~(ret' = RetOf("sync_chain", l, "true"))
         => IsPrefix(chain[l], chain'[l])]_vars

\* the session manager with its background persistence thread running:
\* _auto_persist takes a round whenever it can take the lock
SpecAutoPersist == SpecSessions /\ WF_vars(AutoPersist)

\* the persisted record of every session in the mapping equals its
\* in-memory state
Persisted ==
  \A s \in DOMAIN sessions : s \in DOMAIN stored /\ stored[s] = sessions[s]

\* C32 (as claimed): if from some point on no step changes a session, the
\* persistence thread eventually makes the persisted record of every session
\* in the mapping equal to its in-memory state, whatever ran before.
C32_QuietSessionsArePersisted ==
  <>[][UNCHANGED sessions]_vars => <>[]Persisted

\* C33 (as claimed): when receive_chunk returns success for a transfer and a
\* chunk index of its plan, the chunk is marked verified in the plan and the
\* received bytes have the hash the plan records for that index.
C33_SuccessMeansVerified ==
  [][(ret'.op = "receive_chunk" /\ ret'.val = "true")
       => \A x \in DOMAIN transfers : \A m \in ChunkMessages(x) :
            ReceiveChunk(x, m.chunk_index, m.chunk_data, m.chunk_hash,
                         OutputPath)
              => /\ transfers'[x].chunks[m.chunk_index].is_verified
                 /\ CalculateChunkHash(B64Decode(m.chunk_data))
                      = transfers[x].chunks[m.chunk_index].chunk_hash]_vars

\* C34 (as claimed): over all the polls of one poller on one ledger, the
\* handlers registered for a sealed transaction's type are invoked for that
\* transaction at most once.
C34_DispatchedAtMostOnce ==
  \A k \in DOMAIN dispatch_count[ValidatorNode] :
    dispatch_count[ValidatorNode][k] <= 1

\* C35 (as claimed): whenever create_block appends a block to the chain,
\* the block's validator is a member of the authority set at that moment,
\* however the call is interleaved with add_validator and remove_validator.
C35_SealerAuthorizedAtAppend ==
  [][\A t \in WorkerThreads :
       CreateBlockAppend(t)
         => Last(chain'[thread_pc[t].node]).validator
              \in validators[thread_pc[t].node]]_vars

\* C36 (as claimed): sync_chain replaces the chain only by a candidate
\* strictly longer than the chain it replaces at the moment of replacement,
\* and no step makes a chain shorter, however sync_chain is interleaved with
\* create_block and with other sync_chain calls.
C36_ReplacedOnlyByLonger ==
  [][/\ \A t \in WorkerThreads :
          SyncChainReplace(t)
            => Len(chain'[thread_pc[t].node]) > Len(chain[thread_pc[t].node])
     /\ \A l \in Nodes : Len(chain'[l]) >= Len(chain[l])]_vars

\* the transaction with message id k is in the chain of l, addressed to l
SealedFor(l, k) ==
  \E i \in 1..Len(chain[l]) :
    /\ HasTransactions(chain[l][i])
    /\ \E j \in 1..Len(chain[l][i].data.transactions) :
         /\ chain[l][i].data.transactions[j].message_id = k
         /\ chain[l][i].data.transactions[j].to = l

\* C37 (as claimed): after a successful sync_chain on the node's ledger,
\* every transaction of the adopted chain addressed to the node and not yet
\* dispatched by its poller is eventually dispatched (unless a later sync
\* drops it from the chain), whatever last_processed_block was, the poller
\* running again and again.
C37_AdoptedTransactionsDispatched ==
  \A k \in 1..MaxTx :
    (/\ ret = RetOf("sync_chain", ValidatorNode, "true")
     /\ SealedFor(ValidatorNode, k)
     /\ dispatch_count[ValidatorNode][k] = 0)
      ~> (dispatch_count[ValidatorNode][k] > 0 \/ ~SealedFor(ValidatorNode, k))

\* C38 (as claimed): once delete_session has returned for a session id, no
\* persisted record of that session exists.  A record without a session in
\* the mapping can only be that of a deleted session, so: while no
\* delete_session call is under way, every persisted record belongs to a
\* session of the mapping, and a manager started on the storage loads no
\* deleted session.
C38_DeletedSessionNotPersisted ==
  (\A t \in Threads : pc[t] = <<>>)
    => \A s \in DOMAIN stored : s \in DOMAIN sessions

\* C39 (as claimed): completed and failed are final.  No step of
\* start_upload, verify_chunk, receive_chunk, verify_file or cancel_transfer
\* changes the status of a completed transfer, and none makes a failed
\* transfer completed.
C39_CompletedAndFailedAreFinal ==
  [][ret'.op # "prepare_upload"
       => \A x \in DOMAIN transfers \cap DOMAIN transfers' :
            /\ transfers[x].status = "completed"
                 => transfers'[x].status = "completed"
            /\ transfers[x].status = "failed"
                 => transfers'[x].status # "completed"]_vars

\* C40 (as claimed): receive_chunk is idempotent per chunk.  When a valid
\* chunk of a transfer has been delivered, delivering the same chunk message
\* once more leaves the output file, the set of verified chunks and the
\* status of the transfer as the first delivery left them, and adds no
\* message to the pending pool.
C40_ReceiveChunkIdempotent ==
  [][(ret'.op = "receive_chunk" /\ ret'.val = "true")
       => \A x \in DOMAIN transfers : \A i \in DOMAIN transfers[x].chunks :
            LET m == SentChunk(x, i)
            IN ReceiveChunk(x, m.chunk_index, m.chunk_data, m.chunk_hash,
                            OutputPath)
                 => LET again_files ==
                          WriteChunk(files', OutputPath, m.chunk_index,
                                     B64Decode(m.chunk_data))
                        again ==
                          VerifyChunkResult(Engine', x, m.chunk_index,
                                            m.chunk_hash).e
                    IN /\ again_files[OutputPath] = files'[OutputPath]
                       /\ \A j \in DOMAIN transfers'[x].chunks :
                            again.transfers[x].chunks[j].is_verified
                              = transfers'[x].chunks[j].is_verified
                       /\ again.transfers[x].status = transfers'[x].status
                       /\ again.pool = pending_transactions'[TransferNode]]_vars

====
